---- MODULE Spec2Model ----
(***************************************************************************)
(* Raster analysis core of farm-vision: the vegetation-index functions of  *)
(* utils/advanced_vegetation.py and utils/vegetation_analysis.py, the      *)
(* colormap engine and the two analysis entry points, as a state machine.  *)
(*                                                                         *)
(* A request is drawn in Init (the arguments of one call); the action of   *)
(* the called entry point executes the whole call and records what the     *)
(* caller observes: the return value, an exception that propagates, the    *)
(* errors caught and logged on the way, and the files written.             *)
(*                                                                         *)
(* Numbers.  A numpy scalar is a record [t, k, n, d]: t its dtype, k its   *)
(* kind ("fin", "nan", "pinf", "ninf") and n/d the exact rational value of *)
(* a finite one (d > 0, lowest terms).  Unsigned integer dtypes wrap       *)
(* modulo 2^8 / 2^16 on every operation, as numpy does; float64 values are *)
(* computed exactly, with IEEE's rules for NaN and the infinities.         *)
(* The pixel of an index array is a record [k, f, n, d, e, r]:             *)
(*   f = "q"     the quotient n / (d + e * epsilon), epsilon = 1e-10       *)
(*   f = "rdvi"  (n/d) / sqrt(e/r)                                         *)
(*   f = "msavi" ((n/d) - sqrt(e/r)) / 2                                   *)
(* Comparisons of a quotient with a rational are exact: all integers of    *)
(* the model are far below 1e10, so an integer compared with a multiple of *)
(* epsilon of magnitude below 1 is decided by its sign.                    *)
(***************************************************************************)
EXTENDS Integers, Sequences, FiniteSets, TLC

VARIABLES
    pc,            \* "ready": the call is about to run; "done": it returned
    entry,         \* the entry point called
    image_bands,   \* analyze_vegetation_comprehensive: role -> band or None
    image,         \* VegetationAnalyzer.image: the BGR pixels cv2.imread gave
    algorithm,     \* the algorithm name requested
    colormap,      \* the palette name requested
    ranges,        \* VegetationAnalyzer.analyze: the display range (min, max)
    data,          \* apply_colormap: the index array
    min_val,       \* apply_colormap: min_val or None
    max_val,       \* apply_colormap: max_val or None
    dataset,       \* what rasterio finds at the path handed in (filename, file_path)
    output_dir,    \* analyze_vegetation_from_geotiff: output_dir or None
    metadata,      \* write_geotiff: the metadata dict
    writable,      \* write_geotiff: whether rasterio can write the file at filename
    image_data,    \* calculate_histogram: the 2-D or 3-D array
    bins,          \* calculate_histogram: the bin count
    range_values,  \* calculate_histogram: (min, max) or None
    mask,          \* calculate_histogram: a boolean mask or None
    ret,           \* the value returned to the caller (None, a dict, an image)
    raised,        \* the exception that propagated to the caller, or None
    logged,        \* the exceptions caught inside the call, in order
    files,         \* the image files written by the call: path -> content
    now,           \* time.time() and the alarm clock, in seconds
    timer,         \* the ProcessTimer
    batch,         \* the BatchProcessingTimer
    work,          \* process_item: the item last processed and how long func ran
    sigalrm,       \* the SIGALRM handler installed and the alarm pending
    contexts,      \* the timeout_context frames entered and not left, innermost last
    func,          \* the outcome of the function wrapped: a value or an exception
    memory,        \* memory_monitor: max_memory_mb and the readings of psutil
    calls,         \* memory_monitor: the number of times func was called
    gc_passes,     \* memory_monitor: the number of forced garbage collections
    paths          \* the result paths VegetationAnalyzer.analyze returned so far

vars == <<pc, entry, image_bands, image, algorithm, colormap, ranges, data,
          min_val, max_val, dataset, output_dir, metadata, writable, image_data,
          bins, range_values, mask, ret, raised, logged, files,
          now, timer, batch, work, sigalrm, contexts, func, memory, calls, gc_passes,
          paths>>

\* Python's None
None == [none |-> TRUE]

\* an ndarray: the record of its elements (a 2-D array, row by row)
ndarray(px) == [px |-> px]

\* an exception: its type, what it reports and the band roles its message names
Error(type, kind) == [type |-> type, kind |-> kind, roles |-> {}]

----------------------------------------------------------------------------
(* Exact rational arithmetic                                               *)

Abs(x) == IF x < 0 THEN -x ELSE x

Sign(x) == IF x < 0 THEN -1 ELSE IF x > 0 THEN 1 ELSE 0

Min2(a, b) == IF a <= b THEN a ELSE b

Max2(a, b) == IF a >= b THEN a ELSE b

RECURSIVE Gcd(_, _)
Gcd(a, b) == IF b = 0 THEN a ELSE Gcd(b, a % b)

\* n/d in lowest terms with a positive denominator (d # 0)
Rat(n, d) ==
    LET g == Gcd(Abs(n), Abs(d))
        s == IF d < 0 THEN -1 ELSE 1
    IN  [n |-> (s * n) \div g, d |-> (s * d) \div g]

RatAdd(x, y) == Rat(x.n * y.d + y.n * x.d, x.d * y.d)

RatSub(x, y) == Rat(x.n * y.d - y.n * x.d, x.d * y.d)

RatMul(x, y) == Rat(x.n * y.n, x.d * y.d)

RatLeq(x, y) == x.n * y.d <= y.n * x.d

RatLt(x, y) == x.n * y.d < y.n * x.d

----------------------------------------------------------------------------
(* numpy scalars and their arithmetic                                      *)

UIntTypes == {"uint8", "uint16"}

DTypes == UIntTypes \cup {"float64"}

\* the number of values of an unsigned dtype
Modulus(t) == IF t = "uint8" THEN 256 ELSE 65536

\* A Python int literal is "weak": it takes the dtype of the array operand.
PyInt(k) == [t |-> "pyint", k |-> "fin", n |-> k, d |-> 1]

\* A Python float literal n/d
PyFloat(n, d) == [t |-> "float64", k |-> "fin", n |-> Rat(n, d).n, d |-> Rat(n, d).d]

UInt(t, v) == [t |-> t, k |-> "fin", n |-> v % Modulus(t), d |-> 1]

Float(n, d) == [t |-> "float64", k |-> "fin", n |-> Rat(n, d).n, d |-> Rat(n, d).d]

NaN == [t |-> "float64", k |-> "nan", n |-> 0, d |-> 1]

PInf == [t |-> "float64", k |-> "pinf", n |-> 0, d |-> 1]

NInf == [t |-> "float64", k |-> "ninf", n |-> 0, d |-> 1]

\* numpy's result dtype of a binary operation
ResultType(t1, t2) ==
    CASE t1 = "pyint" -> t2
      [] t2 = "pyint" -> t1
      [] t1 = "float64" \/ t2 = "float64" -> "float64"
      [] t1 = "uint16" \/ t2 = "uint16" -> "uint16"
      [] OTHER -> "uint8"

\* ndarray.astype(np.float64): the value is kept
astype_float64(x) == [x EXCEPT !.t = "float64"]

IsInf(x) == x.k \in {"pinf", "ninf"}

Negate(x) ==
    CASE x.k = "fin" -> [x EXCEPT !.n = -x.n]
      [] x.k = "pinf" -> NInf
      [] x.k = "ninf" -> PInf
      [] OTHER -> x

\* x + y as numpy computes it: modulo 2^w in an unsigned dtype, IEEE in float64
Add(x, y) ==
    LET t == ResultType(x.t, y.t) IN
    IF t \in UIntTypes THEN UInt(t, x.n + y.n)
    ELSE CASE x.k = "nan" \/ y.k = "nan" -> NaN
           [] IsInf(x) /\ IsInf(y) -> IF x.k = y.k THEN astype_float64(x) ELSE NaN
           [] IsInf(x) -> astype_float64(x)
           [] IsInf(y) -> astype_float64(y)
           [] OTHER -> Float(RatAdd(x, y).n, RatAdd(x, y).d)

Sub(x, y) ==
    LET t == ResultType(x.t, y.t) IN
    IF t \in UIntTypes THEN UInt(t, x.n - y.n)
    ELSE Add(x, Negate(astype_float64(y)))

Mul(x, y) ==
    LET t == ResultType(x.t, y.t) IN
    IF t \in UIntTypes THEN UInt(t, x.n * y.n)
    ELSE CASE x.k = "nan" \/ y.k = "nan" -> NaN
           [] IsInf(x) \/ IsInf(y) ->
                LET sx == IF x.k = "fin" THEN Sign(x.n) ELSE IF x.k = "pinf" THEN 1 ELSE -1
                    sy == IF y.k = "fin" THEN Sign(y.n) ELSE IF y.k = "pinf" THEN 1 ELSE -1
                IN  IF sx * sy = 0 THEN NaN ELSE IF sx * sy > 0 THEN PInf ELSE NInf
           [] OTHER -> Float(RatMul(x, y).n, RatMul(x, y).d)

\* x ** 2
Square(x) == Mul(x, x)

\* np.where(denominator == 0, np.nan, denominator): the result is float64
where_zero_nan(den) ==
    IF den.k = "fin" /\ den.n = 0 THEN NaN ELSE astype_float64(den)

\* x / y (numpy's true_divide): always float64; a zero divisor gives an
\* infinity, or NaN for 0/0, with a warning and no exception
TrueDiv(x, y) ==
    CASE x.k = "nan" \/ y.k = "nan" -> NaN
      [] IsInf(x) /\ IsInf(y) -> NaN
      [] IsInf(x) -> IF (x.k = "pinf") = (y.n >= 0) THEN PInf ELSE NInf
      [] IsInf(y) -> Float(0, 1)
      [] y.n = 0 -> IF x.n > 0 THEN PInf ELSE IF x.n < 0 THEN NInf ELSE NaN
      [] OTHER -> Float(x.n * y.d, x.d * y.n)

----------------------------------------------------------------------------
(* Pixels of an index array                                                *)

\* the index pixel holding the float64 scalar x
Pix(x) ==
    IF x.k = "fin" THEN [k |-> "fin", f |-> "q", n |-> x.n, d |-> x.d, e |-> 0, r |-> 0]
    ELSE [k |-> x.k, f |-> "q", n |-> 0, d |-> 1, e |-> 0, r |-> 0]

PixInt(v) == Pix(Float(v, 1))

PixNaN == Pix(NaN)

\* num / (den + epsilon) for finite float64 num and den, epsilon = 1e-10:
\* the quotient n / (d + e * epsilon) over integers, reduced
DivEps(num, den) ==
    LET n == num.n * den.d
        d == num.d * den.n
        e == num.d * den.d
        g == Gcd(Gcd(Abs(n), Abs(d)), e)
    IN  IF n = 0 THEN PixInt(0)
        ELSE [k |-> "fin", f |-> "q", n |-> n \div g, d |-> d \div g,
              e |-> e \div g, r |-> 0]

\* the sign of v - p/q for a finite quotient pixel v and integers p, q (q > 0)
QCmp(v, p, q) ==
    LET sd == IF v.d # 0 THEN Sign(v.d) ELSE 1
        L  == v.n * q - p * v.d
    IN  IF L # 0 THEN sd * Sign(L) ELSE -sd * Sign(p * v.e)

\* np.isnan, np.isfinite on a pixel
isnan(v) == v.k = "nan"

isfinite(v) == v.k = "fin"

\* np.where(np.isfinite(x), x, 0)
finite_or_zero(v) == IF isfinite(v) THEN v ELSE PixInt(0)

\* np.clip(v, lo, hi) for integers lo <= hi: NaN stays NaN
np_clip(v, lo, hi) ==
    CASE v.k = "nan" -> v
      [] v.k = "pinf" -> PixInt(hi)
      [] v.k = "ninf" -> PixInt(lo)
      [] QCmp(v, lo, 1) < 0 -> PixInt(lo)
      [] QCmp(v, hi, 1) > 0 -> PixInt(hi)
      [] OTHER -> v

\* np.sqrt(x) of a finite scalar as the radicand e/r of a pixel; a negative
\* radicand gives NaN
SqrtDefined(x) == x.k = "fin" /\ x.n >= 0

----------------------------------------------------------------------------
(* The index formulas of utils/advanced_vegetation.py, at one pixel.       *)
(* The operands keep the dtype of the band arrays handed in: only NDVI     *)
(* converts them to float64 first.                                         *)

\* calculate_ndvi_advanced written the way its siblings are: the operands keep
\* the dtype of the bands, a zero denominator becomes NaN, nothing is clipped
ndvi_pixel_like_siblings(red, nir) ==
    LET denominator == where_zero_nan(Add(nir, red))
    IN  Pix(TrueDiv(Sub(nir, red), denominator))

ndvi_pixel(red, nir) ==
    LET red_float   == astype_float64(red)
        nir_float   == astype_float64(nir)
        \* denominator = nir_float + red_float + epsilon
        ndvi        == DivEps(Sub(nir_float, red_float), Add(nir_float, red_float))
    IN  np_clip(finite_or_zero(ndvi), -1, 1)

gli_pixel(red, green, blue) ==
    LET denominator == where_zero_nan(Add(Add(Mul(PyInt(2), green), red), blue))
    IN  Pix(TrueDiv(Sub(Sub(Mul(PyInt(2), green), red), blue), denominator))

vari_pixel(red, green, blue) ==
    LET denominator == where_zero_nan(Sub(Add(green, red), blue))
    IN  Pix(TrueDiv(Sub(green, red), denominator))

ndwi_pixel(green, nir) ==
    LET denominator == where_zero_nan(Add(green, nir))
    IN  Pix(TrueDiv(Sub(green, nir), denominator))

savi_pixel(red, nir) ==
    LET l_factor    == PyFloat(1, 2)
        denominator == where_zero_nan(Add(Add(nir, red), l_factor))
    IN  Pix(TrueDiv(Mul(Sub(nir, red), Add(PyFloat(1, 1), l_factor)), denominator))

evi_pixel(red, nir, blue) ==
    LET denominator == where_zero_nan(
            Add(Sub(Add(nir, Mul(PyInt(6), red)), Mul(PyFloat(15, 2), blue)), PyInt(1)))
    IN  Pix(TrueDiv(Mul(PyFloat(5, 2), Sub(nir, red)), denominator))

tgi_pixel(red, green, blue) ==
    Pix(astype_float64(
        Sub(Sub(green, Mul(PyFloat(39, 100), red)), Mul(PyFloat(61, 100), blue))))

\* calculate_msavi_advanced with 8*(nir + red) taken off under the root
msavi_pixel_sum(red, nir) ==
    LET a        == Add(Mul(PyInt(2), nir), PyInt(1))
        radicand == Sub(Square(a), Mul(PyInt(8), Add(nir, red)))
    IN  IF SqrtDefined(radicand)
        THEN [k |-> "fin", f |-> "msavi", n |-> a.n, d |-> a.d,
              e |-> radicand.n, r |-> radicand.d]
        ELSE PixNaN

\* (2*nir + 1 - sqrt((2*nir + 1)**2 - 8*(nir - red))) / 2
msavi_pixel(red, nir) ==
    LET a        == Add(Mul(PyInt(2), nir), PyInt(1))
        radicand == Sub(Square(a), Mul(PyInt(8), Sub(nir, red)))
    IN  IF SqrtDefined(radicand)
        THEN [k |-> "fin", f |-> "msavi", n |-> a.n, d |-> a.d,
              e |-> radicand.n, r |-> radicand.d]
        ELSE PixNaN

osavi_pixel(red, nir) ==
    LET y_factor    == PyFloat(16, 100)
        denominator == where_zero_nan(Add(Add(nir, red), y_factor))
    IN  Pix(TrueDiv(Sub(nir, red), denominator))

\* denominator = sqrt(nir + red), NaN where it is 0
rdvi_pixel(red, nir) ==
    LET s   == Add(nir, red)
        num == Sub(nir, red)
    IN  IF SqrtDefined(s) /\ s.n # 0
        THEN [k |-> "fin", f |-> "rdvi", n |-> num.n, d |-> num.d,
              e |-> s.n, r |-> s.d]
        ELSE PixNaN

gndvi_pixel(green, nir) ==
    LET denominator == where_zero_nan(Add(nir, green))
    IN  Pix(TrueDiv(Sub(nir, green), denominator))

cvi_pixel(red, green, nir) == Pix(TrueDiv(Mul(nir, red), Square(green)))

arvi_pixel(red, nir, blue) ==
    LET denominator == where_zero_nan(Sub(Add(nir, red), blue))
    IN  Pix(TrueDiv(Sub(nir, red), denominator))

gci_pixel(red, green, nir) == Pix(Sub(TrueDiv(nir, green), PyInt(1)))

----------------------------------------------------------------------------
(* apply_colormap of utils/advanced_vegetation.py.  An index array is the  *)
(* sequence of its pixels (a 2-D array, row by row); a colour image is the *)
(* sequence of its pixels, each the tuple of its channels.                 *)

\* Color maps from uploaded files: the fixed red-yellow-green ramp
RdYlGn_lut == <<
    <<165,0,38>>, <<167,2,38>>, <<169,4,38>>, <<171,6,38>>, <<173,8,38>>, <<175,9,38>>,
    <<177,11,38>>, <<179,13,38>>, <<181,15,38>>, <<182,17,39>>, <<184,19,39>>, <<186,21,39>>,
    <<188,23,39>>, <<190,25,39>>, <<192,27,39>>, <<194,29,40>>, <<196,31,40>>, <<197,33,40>>,
    <<199,35,40>>, <<201,37,41>>, <<203,39,41>>, <<204,41,41>>, <<206,43,42>>, <<208,45,42>>,
    <<209,47,43>>, <<211,49,43>>, <<212,51,44>>, <<214,53,44>>, <<215,56,45>>, <<217,58,46>>,
    <<218,60,46>>, <<220,62,47>>, <<221,64,48>>, <<222,67,49>>, <<224,69,50>>, <<225,71,51>>,
    <<226,74,51>>, <<227,76,52>>, <<228,78,53>>, <<229,81,54>>, <<231,83,55>>, <<232,85,56>>,
    <<233,88,57>>, <<234,90,58>>, <<235,93,60>>, <<236,95,61>>, <<237,97,62>>, <<237,100,63>>,
    <<238,102,64>>, <<239,105,65>>, <<240,107,66>>, <<240,110,68>>, <<241,112,69>>, <<242,115,70>>,
    <<242,117,71>>, <<243,120,73>>, <<243,122,74>>, <<244,125,75>>, <<244,127,77>>, <<245,130,78>>,
    <<245,132,79>>, <<246,135,81>>, <<246,137,82>>, <<247,140,84>>, <<247,142,85>>, <<248,145,87>>,
    <<248,147,88>>, <<248,150,90>>, <<249,152,91>>, <<249,155,93>>, <<249,158,94>>, <<250,160,96>>,
    <<250,163,98>>, <<250,165,99>>, <<251,168,101>>, <<251,170,103>>, <<251,173,104>>, <<251,175,106>>,
    <<252,178,108>>, <<252,180,109>>, <<252,183,111>>, <<252,186,113>>, <<252,188,115>>, <<253,191,116>>,
    <<253,193,118>>, <<253,196,120>>, <<253,198,122>>, <<253,201,124>>, <<253,203,125>>, <<254,206,127>>,
    <<254,208,129>>, <<254,211,131>>, <<254,214,133>>, <<254,216,135>>, <<254,219,137>>, <<254,221,139>>,
    <<254,224,141>>, <<254,226,143>>, <<254,229,145>>, <<254,231,147>>, <<254,234,149>>, <<254,236,151>>,
    <<254,239,153>>, <<254,241,155>>, <<254,244,157>>, <<254,246,160>>, <<254,249,162>>, <<254,251,164>>,
    <<254,254,166>>, <<253,254,168>>, <<251,254,170>>, <<250,254,172>>, <<248,254,175>>, <<247,254,177>>,
    <<245,254,179>>, <<244,254,181>>, <<242,254,183>>, <<241,254,185>>, <<239,254,188>>, <<238,254,190>>,
    <<236,254,192>>, <<235,254,194>>, <<233,254,196>>, <<232,254,199>>, <<230,254,201>>, <<229,254,203>>,
    <<227,254,205>>, <<226,254,207>>, <<224,254,210>>, <<223,254,212>>, <<221,254,214>>, <<220,254,216>>
>>

\* the names plt.cm.get_cmap knows, among the palettes requested here (a
\* matplotlib that still has cm.get_cmap, as line 76 expects)
MatplotlibCmaps == {"viridis", "plasma"}

\* a pixel that holds a float64 scalar (a rational, NaN or an infinity)
IsPlain(v) == v.f = "q" /\ v.e = 0

\* the float64 scalar a plain pixel holds
ToNum(v) ==
    CASE v.k # "fin" -> [t |-> "float64", k |-> v.k, n |-> 0, d |-> 1]
      [] IsPlain(v) -> Float(v.n, v.d)

\* v <= w for two valid pixels.  Pixels that are no plain float64 values
\* (epsilon quotients, square roots) are compared only with themselves.
PixLeq(v, w) ==
    CASE v = w -> TRUE
      [] v.k = "ninf" \/ w.k = "pinf" -> TRUE
      [] v.k = "pinf" \/ w.k = "ninf" -> FALSE
      [] IsPlain(v) /\ IsPlain(w) -> RatLeq(v, w)

ValidPixels(arr) == {arr[i] : i \in {j \in 1..Len(arr) : ~isnan(arr[j])}}

\* np.nanmin / np.nanmax of an array with a valid pixel
nanmin(arr) == CHOOSE v \in ValidPixels(arr) : \A w \in ValidPixels(arr) : PixLeq(v, w)

nanmax(arr) == CHOOSE v \in ValidPixels(arr) : \A w \in ValidPixels(arr) : PixLeq(w, v)

\* np.clip of a float64 scalar to [0, 1]
clip01(x) ==
    CASE x.k = "nan" -> x
      [] x.k = "pinf" -> Float(1, 1)
      [] x.k = "ninf" -> Float(0, 1)
      [] x.n < 0 -> Float(0, 1)
      [] x.n > x.d -> Float(1, 1)
      [] OTHER -> x

\* lines 53-59: (v - min_val) / (max_val - min_val) for a valid pixel v, with
\* max_val widened by 1e-6 when max_val == min_val.  lo and hi are pixels.
\* A pixel that is no plain float64 value is normalized only against
\* itself: (v - v) / ((v + 1e-6) - v) = 0.
normalized_value(v, lo, hi) ==
    CASE isfinite(v) /\ v = lo /\ v = hi -> Float(0, 1)
      [] IsPlain(v) /\ IsPlain(lo) /\ IsPlain(hi) ->
            LET mn == ToNum(lo)
                mx == IF hi = lo THEN Add(mn, PyFloat(1, 1000000)) ELSE ToNum(hi)
            IN  TrueDiv(Sub(ToNum(v), mn), Sub(mx, mn))

\* lines 58-60: the normalized array; an invalid pixel keeps 0.0
normalized_array(arr, lo, hi) ==
    [i \in 1..Len(arr) |->
        IF isnan(arr[i]) THEN Float(0, 1) ELSE clip01(normalized_value(arr[i], lo, hi))]

\* lines 67-68: (normalized * (N - 1)).astype(int), clipped to 0..N-1.  The
\* conversion truncates.  The conversion of NaN is not defined by numpy
\* (the smallest integer on x86, 0 on ARM): the clip makes it 0 either way.
lut_index(x) ==
    IF x.k # "fin" THEN 0
    ELSE Max2(0, Min2(Len(RdYlGn_lut) - 1, (x.n * (Len(RdYlGn_lut) - 1)) \div x.d))

\* lines 63-71: the row of np.array(RdYlGn_lut) / 255.0 at an index, RGB
colormap_array(index) ==
    <<Float(RdYlGn_lut[index + 1][1], 255), Float(RdYlGn_lut[index + 1][2], 255),
      Float(RdYlGn_lut[index + 1][3], 255)>>

\* the continuous colormap of matplotlib: RGBA, not interpreted further
cmap_pixel(name, x) == <<[cm |-> name, ch |-> "R", x |-> x], [cm |-> name, ch |-> "G", x |-> x],
                         [cm |-> name, ch |-> "B", x |-> x], [cm |-> name, ch |-> "A", x |-> x]>>

\* lines 79-83: the except branch.  np.nanmin(None) is None and data - None
\* raises TypeError; np.nanmin of an empty array raises ValueError: both
\* propagate.  Otherwise the clipped (data - min) / (max - min), 3 times.
grayscale_fallback(data_, err) ==
    IF data_ = None
    THEN [raised |-> Error("TypeError", "unsupported operand"), image |-> None, logged |-> <<err>>]
    ELSE IF Len(data_.px) = 0
    THEN [raised |-> Error("ValueError", "zero-size array"), image |-> None, logged |-> <<err>>]
    ELSE LET arr  == data_.px
             gray == [i \in 1..Len(arr) |->
                        IF ValidPixels(arr) = {} \/ isnan(arr[i]) THEN NaN
                        ELSE LET mn == nanmin(arr)
                                 mx == nanmax(arr)
                             IN  IF mn = mx THEN NaN   \* 0/0, or inf - inf
                                 ELSE clip01(TrueDiv(Sub(ToNum(arr[i]), ToNum(mn)),
                                                     Sub(ToNum(mx), ToNum(mn))))]
         IN  [raised |-> None,
              image  |-> ndarray([i \in 1..Len(arr) |-> <<gray[i], gray[i], gray[i]>>]),
              logged |-> <<err>>]

\* apply_colormap(data, colormap, min_val, max_val); lo_arg and hi_arg are
\* None or a pixel.  The result: the exception raised to the caller (None:
\* none), the image returned (an ndarray of colour pixels) and the errors
\* logged.
apply_colormap(data_, cm, lo_arg, hi_arg) ==
    IF data_ = None \/ (data_ # None /\ Len(data_.px) = 0)
    THEN grayscale_fallback(data_, Error("ValueError", "Invalid input data"))
    ELSE IF ValidPixels(data_.px) = {}
    THEN grayscale_fallback(data_, Error("ValueError", "All data values are NaN"))
    ELSE LET arr  == data_.px
             lo   == IF lo_arg = None THEN nanmin(arr) ELSE lo_arg
             hi   == IF hi_arg = None THEN nanmax(arr) ELSE hi_arg
             normalized == normalized_array(arr, lo, hi)
         IN  IF cm = "rdylgn"
             THEN [raised |-> None,
                   image  |-> ndarray([i \in 1..Len(arr) |->
                                          colormap_array(lut_index(normalized[i]))]),
                   logged |-> << >>]
             ELSE IF cm \in MatplotlibCmaps
             THEN [raised |-> None,
                   image  |-> ndarray([i \in 1..Len(arr) |-> cmap_pixel(cm, normalized[i])]),
                   logged |-> << >>]
             ELSE grayscale_fallback(data_, Error("ValueError", "unknown colormap"))

----------------------------------------------------------------------------
(* The registry and analyze_vegetation_comprehensive                       *)

Roles == {"red", "green", "blue", "nir"}

\* VEGETATION_ALGORITHMS: the names of the registry
VEGETATION_ALGORITHMS ==
    {"ndvi", "gli", "vari", "ndwi", "savi", "evi", "tgi", "msavi", "osavi",
     "rdvi", "gndvi", "cvi", "arvi", "gci"}

\* VEGETATION_ALGORITHMS[algorithm](a, b): the two-argument functions, with
\* the arguments in the order of the definition's parameters
call2(alg, a, b) ==
    [i \in 1..Len(a) |->
        CASE alg = "ndvi"  -> ndvi_pixel(a[i], b[i])     \* (red_band, nir_band)
          [] alg = "savi"  -> savi_pixel(a[i], b[i])     \* (red_band, nir_band)
          [] alg = "msavi" -> msavi_pixel(a[i], b[i])    \* (red_band, nir_band)
          [] alg = "osavi" -> osavi_pixel(a[i], b[i])    \* (red_band, nir_band)
          [] alg = "rdvi"  -> rdvi_pixel(a[i], b[i])     \* (red_band, nir_band)
          [] alg = "gndvi" -> gndvi_pixel(a[i], b[i])    \* (green_band, nir_band)
          [] alg = "ndwi"  -> ndwi_pixel(a[i], b[i])]    \* (green_band, nir_band)

\* VEGETATION_ALGORITHMS[algorithm](a, b, c): the three-argument functions
call3(alg, a, b, c) ==
    [i \in 1..Len(a) |->
        CASE alg = "gli"  -> gli_pixel(a[i], b[i], c[i])    \* (red, green, blue)
          [] alg = "vari" -> vari_pixel(a[i], b[i], c[i])   \* (red, green, blue)
          [] alg = "tgi"  -> tgi_pixel(a[i], b[i], c[i])    \* (red, green, blue)
          [] alg = "evi"  -> evi_pixel(a[i], b[i], c[i])    \* (red, nir, blue)
          [] alg = "arvi" -> arvi_pixel(a[i], b[i], c[i])   \* (red, nir, blue)
          [] alg = "cvi"  -> cvi_pixel(a[i], b[i], c[i])    \* (red, green, nir)
          [] alg = "gci"  -> gci_pixel(a[i], b[i], c[i])]   \* (red, green, nir)

\* ValueError(f"Desteklenmeyen algoritma: {algorithm}")
UnsupportedError == Error("ValueError", "unsupported")

\* ValueError(f"Algoritma {algorithm} icin ... bandlari gereklidir"): roles
\* are the band roles the message names
MissingError(named) == [type |-> "ValueError", kind |-> "missing_band", roles |-> named]

\* lines 280-335: the dispatch.  [err |-> the exception raised (None: none),
\* result |-> the index array]
dispatch(bands, alg) ==
    LET get(role)  == IF role \in DOMAIN bands THEN bands[role] ELSE None
        red_band   == get("red")
        green_band == get("green")
        blue_band  == get("blue")
        nir_band   == get("nir")
        ok(arr)    == [err |-> None, result |-> ndarray(arr)]
        fail(e)    == [err |-> e, result |-> None]
    IN
    IF alg \notin VEGETATION_ALGORITHMS THEN fail(UnsupportedError)
    ELSE IF alg \in {"ndvi", "savi", "msavi", "osavi", "rdvi", "gndvi"}
    THEN IF red_band = None \/ nir_band = None
         THEN fail(MissingError({"red", "nir"}))
         ELSE ok(call2(alg, red_band.px, nir_band.px))
    ELSE IF alg \in {"gli", "vari", "tgi", "evi", "arvi"}
    THEN IF red_band = None \/ green_band = None \/ blue_band = None
         THEN fail(MissingError({"red", "green", "blue"}))
         ELSE IF alg = "evi" \/ alg = "arvi"
              THEN IF nir_band = None
                   THEN fail(MissingError({"nir"}))
                   ELSE ok(call3(alg, red_band.px, nir_band.px, blue_band.px))
              ELSE ok(call3(alg, red_band.px, green_band.px, blue_band.px))
    ELSE IF alg = "ndwi"
    THEN IF green_band = None \/ nir_band = None
         THEN fail(MissingError({"green", "nir"}))
         ELSE ok(call2(alg, green_band.px, nir_band.px))
    ELSE IF alg \in {"cvi", "gci"}
    THEN IF red_band = None \/ green_band = None \/ nir_band = None
         THEN fail(MissingError({"red", "green", "nir"}))
         ELSE ok(call3(alg, red_band.px, green_band.px, nir_band.px))
    ELSE fail(UnsupportedError)

\* lines 341-347: np.nanmin, nanmax, nanmean, nanstd, nanmedian.  An array
\* with no valid pixel gives NaN everywhere (a RuntimeWarning, no exception).
\* An array whose valid pixels all hold one value v gives v, and std 0 (NaN
\* for an infinite v: inf - inf).
nan_statistics(result) ==
    LET arr == result.px IN
    IF ValidPixels(arr) = {}
    THEN [min |-> PixNaN, max |-> PixNaN, mean |-> PixNaN, std |-> PixNaN, median |-> PixNaN]
    ELSE LET mn == nanmin(arr)
             mx == nanmax(arr)
         IN  CASE mn = mx ->
                    [min |-> mn, max |-> mx, mean |-> mn,
                     std |-> IF isfinite(mn) THEN PixInt(0) ELSE PixNaN, median |-> mn]

\* lines 340-355: the statistics and the dict returned, for the index array
\* d.result and the outcome colored of apply_colormap; an exception of
\* apply_colormap is caught at lines 357-359 like every other
comprehensive_return(d, colored, alg, cm) ==
    IF colored.raised # None
    THEN [ret |-> None, raised |-> None, logged |-> colored.logged \o <<colored.raised>>]
    ELSE [ret |-> [analysis_data |-> d.result,
                   colored_image |-> colored.image,
                   statistics    |-> nan_statistics(d.result),
                   algorithm     |-> alg,
                   colormap      |-> cm],
          raised |-> None,
          logged |-> colored.logged]

\* lines 337-338, for the outcome d of the dispatch: an exception raised in
\* it is caught at lines 357-359, printed, and None is returned
comprehensive_colored(d, alg, cm) ==
    IF d.err # None
    THEN [ret |-> None, raised |-> None, logged |-> <<d.err>>]
    ELSE comprehensive_return(d, apply_colormap(d.result, cm, None, None), alg, cm)

\* analyze_vegetation_comprehensive(image_bands, algorithm, colormap)
analyze_vegetation_comprehensive(bands, alg, cm) ==
    comprehensive_colored(dispatch(bands, alg), alg, cm)

----------------------------------------------------------------------------
(* VegetationAnalyzer of utils/vegetation_analysis.py.  self.image is the  *)
(* uint8 BGR image cv2.imread returned: a sequence of pixels [b, g, r].    *)

\* the calculate_<name> methods of the class
AnalyzerMethods ==
    {"ndvi", "gli", "vari", "ndyi", "ndre", "ndwi", "ndvi_blue", "endvi", "vndvi",
     "mpri", "exg", "tgi", "bai", "gndvi", "savi"}

\* calculate_ndvi on the 8-bit channels as they are, without line 60
analyzer_ndvi_pixel_uint8(b, g, r) ==
    np_clip(finite_or_zero(DivEps(Sub(g, r), Add(g, r))), -1, 1)

\* calculate_ndvi: (g - r) / (g + r + epsilon) in float64, non-finite -> 0,
\* clipped to [-1, 1]
analyzer_ndvi_pixel(b, g, r) ==
    LET gf == astype_float64(g)
        rf == astype_float64(r)
    IN  np_clip(finite_or_zero(DivEps(Sub(gf, rf), Add(gf, rf))), -1, 1)

\* calculate_gli: ((g*2) - r - b) / ((g*2) + r + b + epsilon)
analyzer_gli_pixel(b, g, r) ==
    LET bf == astype_float64(b)
        gf == astype_float64(g)
        rf == astype_float64(r)
        g2 == Mul(gf, PyInt(2))
    IN  np_clip(finite_or_zero(DivEps(Sub(Sub(g2, rf), bf), Add(Add(g2, rf), bf))), -1, 1)

\* calculate_vari: (g - r) / (g + r - b + epsilon)
analyzer_vari_pixel(b, g, r) ==
    LET bf == astype_float64(b)
        gf == astype_float64(g)
        rf == astype_float64(r)
    IN  np_clip(finite_or_zero(DivEps(Sub(gf, rf), Sub(Add(gf, rf), bf))), -1, 1)

\* calculate_exg: (2*g) - (r + b) in float32 (exact on 8-bit values)
analyzer_exg_pixel(b, g, r) ==
    LET bf == astype_float64(b)
        gf == astype_float64(g)
        rf == astype_float64(r)
    IN  np_clip(Pix(Sub(Mul(PyInt(2), gf), Add(rf, bf))), -255, 255)

\* calculate_tgi: g - 0.39*r - 0.61*b
analyzer_tgi_pixel(b, g, r) ==
    LET bf == astype_float64(b)
        gf == astype_float64(g)
        rf == astype_float64(r)
    IN  np_clip(Pix(Sub(Sub(gf, Mul(PyFloat(39, 100), rf)), Mul(PyFloat(61, 100), bf))),
                -255, 255)

\* analysis_func() for the methods modelled
analyzer_calculate(alg, img) ==
    [i \in 1..Len(img) |->
        CASE alg = "ndvi" -> analyzer_ndvi_pixel(img[i].b, img[i].g, img[i].r)
          [] alg = "gli"  -> analyzer_gli_pixel(img[i].b, img[i].g, img[i].r)
          [] alg = "vari" -> analyzer_vari_pixel(img[i].b, img[i].g, img[i].r)
          [] alg = "exg"  -> analyzer_exg_pixel(img[i].b, img[i].g, img[i].r)
          [] alg = "tgi"  -> analyzer_tgi_pixel(img[i].b, img[i].g, img[i].r)]

\* y >= m for y = (v - lo) / (hi - lo) * 255, lo < hi integers
ScaledGeq(v, lo, hi, m) == QCmp(v, 255 * lo + m * (hi - lo), 255) >= 0

\* the integer part of y = (v - lo) / (hi - lo) * 255 (towards zero), for a
\* finite quotient pixel v with d # 0
TruncScaled(v, lo, hi) ==
    LET N    == 255 * (v.n - lo * v.d)
        D    == (hi - lo) * v.d
        sD   == Sign(D)
        base == (sD * N) \div (sD * D)          \* the floor with epsilon dropped
        fl   == CHOOSE m \in (base - 1)..(base + 1) :
                    ScaledGeq(v, lo, hi, m) /\ ~ScaledGeq(v, lo, hi, m + 1)
    IN  IF fl >= 0 \/ QCmp(v, 255 * lo + fl * (hi - lo), 255) = 0 THEN fl ELSE fl + 1

\* .astype(np.uint8) of a float with integer part t.  Outside 0..255 the C
\* conversion is undefined: the build wraps modulo 256 (x86) or saturates (ARM).
CastModes == {"wrap", "saturate"}

to_uint8(t, cast) ==
    IF t >= 0 /\ t <= 255 THEN t
    ELSE IF cast = "wrap" THEN t % 256
    ELSE IF t < 0 THEN 0 ELSE 255

\* colormap_dict.get(colormap, cv2.COLORMAP_JET); cv2 has no COLORMAP_RdYlGn
cv_colormap(cm) ==
    CASE cm = "viridis" -> "VIRIDIS"
      [] cm = "plasma"  -> "PLASMA"
      [] cm = "inferno" -> "INFERNO"
      [] cm = "magma"   -> "MAGMA"
      [] OTHER -> "JET"

\* apply_colormap_and_save: the file written, for lo < hi.  rnd is
\* int(np.random.rand() * 10000).
apply_colormap_and_save(data_, alg, cm, rng, rnd, cast) ==
    LET arr        == data_.px
        normalized == [i \in 1..Len(arr) |->
                          to_uint8(TruncScaled(arr[i], rng[1], rng[2]), cast)]
    IN  [path    |-> <<"static/results/vegetation", alg, cm, rnd>>,
         content |-> [cv |-> cv_colormap(cm), pixels |-> normalized]]

\* lines 41-48 of analyze, for the index array result_array
analyze_save(result_array, alg, rng, cm, rnd, cast) ==
    [ret |-> [path |-> <<"static/results/vegetation", alg, cm, rnd>>, algorithm |-> alg,
              colormap |-> cm, ranges |-> rng, result_array |-> result_array],
     raised |-> None, logged |-> << >>,
     written |-> <<apply_colormap_and_save(result_array, alg, cm, rng, rnd, cast)>>]

\* VegetationAnalyzer.analyze(algorithm, ranges, colormap): an unknown name
\* raises ValueError, re-raised as Exception("Vegetation analizi hatasi: ...")
analyze(img, alg, rng, cm, rnd, cast) ==
    IF alg \notin AnalyzerMethods
    THEN [ret |-> None,
          raised |-> Error("Exception", "unsupported"),
          logged |-> << >>, written |-> << >>]
    ELSE analyze_save(ndarray(analyzer_calculate(alg, img.px)), alg, rng, cm, rnd, cast)

----------------------------------------------------------------------------
(* utils/histogram_geotiff.py: rasters read from and written to files.     *)
(* A raster is one row of pixels per band; a 3-D array (bands, rows, cols) *)
(* is the sequence of its bands, each an ndarray.                          *)

ndarray3(bands_) == [bands |-> bands_]

\* what is at a path: state "missing" (no file), "corrupt" (rasterio.open
\* raises) or "raster", with the dtype and the bands of the file
Dataset(state, dtype, bands_) ==
    [state |-> state, dtype |-> dtype, bands |-> bands_,
     crs |-> "EPSG:32636", transform |-> "affine"]

\* lines 44-46: the error is logged and (None, None) returned
read_failed(e) == [data |-> None, metadata |-> None, logged |-> <<e>>]

\* read_geotiff(filename), for the dataset ds at filename
read_geotiff(ds) ==
    IF ds.state = "missing"
    THEN read_failed(Error("FileNotFoundError", "GeoTIFF file not found"))
    ELSE IF ds.state = "corrupt"
    THEN read_failed(Error("RasterioIOError", "not recognized as a supported file format"))
    ELSE IF Len(ds.bands) = 0
    THEN read_failed(Error("ValueError", "Invalid GeoTIFF: No bands found"))
    ELSE IF Len(ds.bands[1].px) = 0
    THEN read_failed(Error("ValueError", "Invalid GeoTIFF: Empty data"))
    ELSE [data     |-> ndarray3(ds.bands),
          metadata |-> [crs |-> ds.crs, transform |-> ds.transform,
                        width |-> Len(ds.bands[1].px), height |-> 1,
                        count |-> Len(ds.bands), dtype |-> ds.dtype],
          logged   |-> << >>]

\* write_geotiff with the crs of the metadata left out of the file, which
\* then has the crs of the default dataset
write_geotiff_without_crs(filename, data_, metadata_, ok) ==
    IF ok
    THEN [ok |-> TRUE,
          written |-> <<[path    |-> filename,
                         content |-> [driver |-> "GTiff", count |-> 1, dtype |-> "float64",
                                      bands |-> <<data_>>, crs |-> "EPSG:32636",
                                      transform |-> metadata_.transform]]>>]
    ELSE [ok |-> FALSE, written |-> << >>]

\* write_geotiff(filename, data, metadata) of a 2-D float64 array: promoted
\* to one band and written with the crs and transform of metadata; ok is
\* whether rasterio can write the file.  A failure is printed and False
\* returned.
write_geotiff(filename, data_, metadata_, ok) ==
    IF ok
    THEN [ok |-> TRUE,
          written |-> <<[path    |-> filename,
                         content |-> [driver |-> "GTiff", count |-> 1, dtype |-> "float64",
                                      bands |-> <<data_>>, crs |-> metadata_.crs,
                                      transform |-> metadata_.transform]]>>]
    ELSE [ok |-> FALSE, written |-> << >>]

\* what rasterio finds at path among the files fs: the raster written there
\* with its dtype, bands, crs and transform, or nothing
file_dataset(fs, path) ==
    IF path \in DOMAIN fs
    THEN [state |-> "raster", dtype |-> fs[path].dtype, bands |-> fs[path].bands,
          crs |-> fs[path].crs, transform |-> fs[path].transform]
    ELSE Dataset("missing", "none", << >>)

\* the bands by position, with the band standing in for nir left as the
\* green band is
prepare_bands_unscaled_nir(data_) ==
    IF Len(data_.bands) >= 4
    THEN [red |-> data_.bands[1], green |-> data_.bands[2], blue |-> data_.bands[3],
          nir |-> data_.bands[4]]
    ELSE IF Len(data_.bands) = 3
    THEN [red |-> data_.bands[1], green |-> data_.bands[2], blue |-> data_.bands[3],
          nir |-> data_.bands[2]]
    ELSE None

\* lines 307-325: the bands by position; None where the function returns
\* for want of bands
prepare_bands(data_) ==
    IF Len(data_.bands) >= 4
    THEN [red |-> data_.bands[1], green |-> data_.bands[2], blue |-> data_.bands[3],
          nir |-> data_.bands[4]]
    ELSE IF Len(data_.bands) = 3
    THEN [red |-> data_.bands[1], green |-> data_.bands[2], blue |-> data_.bands[3],
          nir |-> ndarray([i \in 1..Len(data_.bands[2].px) |->
                              Mul(data_.bands[2].px[i], PyFloat(12, 10))])]
    ELSE None

\* line 343: (colored_image * 255).astype(np.uint8) of one channel, a value
\* in [0, 1] or NaN: c / 255.0 * 255 is c again for every c in 0..255, and
\* NaN converts to 0
channel_uint8(x) ==
    IF x.k # "fin" THEN 0 ELSE (x.n * 255) \div x.d

\* lines 343-345: the PNG written from the first three channels
colored_png(colored_path, colored_image) ==
    [path    |-> colored_path,
     content |-> [driver |-> "PNG",
                  pixels |-> [i \in 1..Len(colored_image.px) |->
                                 <<channel_uint8(colored_image.px[i][1]),
                                   channel_uint8(colored_image.px[i][2]),
                                   channel_uint8(colored_image.px[i][3])>>]]]

\* lines 330-350, for the outcome a of analyze_vegetation_comprehensive and
\* the metadata read: with a result and an output_dir the result is saved.
\* out.tif_ok, out.png_ok: whether the two files can be written.  The value
\* of write_geotiff is not looked at; a failure of Image.save is an
\* exception, caught at lines 352-354.
geotiff_save(a, bands, metadata_, alg, out) ==
    IF a.raised # None
    THEN [ret |-> None, raised |-> None, logged |-> a.logged \o <<a.raised>>,
          written |-> << >>, image_bands |-> bands]
    ELSE IF a.ret = None \/ out = None
    THEN [ret |-> a.ret, raised |-> None, logged |-> a.logged, written |-> << >>,
          image_bands |-> bands]
    ELSE IF ~out.png_ok
    THEN [ret |-> None, raised |-> None,
          logged |-> a.logged \o <<Error("OSError", "cannot write file")>>,
          written |-> write_geotiff(<<out.name, alg, "analysis.tif">>, a.ret.analysis_data,
                                    metadata_, out.tif_ok).written,
          image_bands |-> bands]
    ELSE [ret |-> [analysis_data |-> a.ret.analysis_data,
                   colored_image |-> a.ret.colored_image,
                   statistics    |-> a.ret.statistics,
                   algorithm     |-> a.ret.algorithm,
                   colormap      |-> a.ret.colormap,
                   geotiff_path  |-> <<out.name, alg, "analysis.tif">>,
                   colored_path  |-> <<out.name, alg, "colored.png">>],
          raised |-> None, logged |-> a.logged,
          written |-> write_geotiff(<<out.name, alg, "analysis.tif">>, a.ret.analysis_data,
                                    metadata_, out.tif_ok).written
                      \o <<colored_png(<<out.name, alg, "colored.png">>,
                                       a.ret.colored_image)>>,
          image_bands |-> bands]

\* lines 307-328, for the outcome rd of read_geotiff with data
geotiff_bands(rd, bands, alg, out) ==
    IF bands = None
    THEN [ret |-> None, raised |-> None, logged |-> rd.logged, written |-> << >>,
          image_bands |-> << >>]
    ELSE geotiff_save(analyze_vegetation_comprehensive(bands, alg, "rdylgn"),
                      bands, rd.metadata, alg, out)

\* lines 302-305, for the outcome rd of read_geotiff
geotiff_read(rd, alg, out) ==
    IF rd.data = None
    THEN [ret |-> None, raised |-> None, logged |-> rd.logged, written |-> << >>,
          image_bands |-> << >>]
    ELSE geotiff_bands(rd, prepare_bands(rd.data), alg, out)

\* analyze_vegetation_from_geotiff(file_path, algorithm, output_dir), for the
\* dataset ds at file_path
analyze_vegetation_from_geotiff(ds, alg, out) ==
    geotiff_read(read_geotiff(ds), alg, out)

----------------------------------------------------------------------------
(* utils/histogram_geotiff.py: histograms                                  *)

\* v <= w for two float64 scalars that are not NaN
ScalarLeq(v, w) ==
    CASE v.k = "ninf" \/ w.k = "pinf" -> TRUE
      [] v.k = "pinf" \/ w.k = "ninf" -> FALSE
      [] OTHER -> RatLeq(v, w)

RECURSIVE masked(_, _)
\* band_data[mask]: the pixels at which the boolean array sel is True
masked(px, sel) ==
    IF px = << >> THEN << >>
    ELSE (IF Head(sel) THEN <<Head(px)>> ELSE << >>) \o masked(Tail(px), Tail(sel))

\* lines 105-111 (and 122-128): the pixels the mask selects, or all of them,
\* without the NaN ones
band_values(band, mask_) ==
    SelectSeq(IF mask_ = None THEN band.px ELSE masked(band.px, mask_.sel),
              LAMBDA v : v.k # "nan")

\* np.min / np.max of an array that is not empty and holds no NaN
np_min(a) ==
    CHOOSE v \in {a[i] : i \in DOMAIN a} : \A j \in DOMAIN a : ScalarLeq(v, a[j])

np_max(a) ==
    CHOOSE v \in {a[i] : i \in DOMAIN a} : \A j \in DOMAIN a : ScalarLeq(a[j], v)

\* lines 113-114 (and 130-131): range_values as it is after the statement;
\* None where np.min raises on an array without elements
range_of(band_data, rng) ==
    IF rng # None THEN rng
    ELSE IF band_data = << >> THEN None
    ELSE [lo |-> np_min(band_data), hi |-> np_max(band_data)]

\* the outer edges np.histogram takes from range=(lo, hi): a range of one
\* value is widened by one half on each side
outer_edges(rng) ==
    IF rng.lo = rng.hi
    THEN [lo |-> Float(2 * rng.lo.n - rng.lo.d, 2 * rng.lo.d),
          hi |-> Float(2 * rng.hi.n + rng.hi.d, 2 * rng.hi.d)]
    ELSE rng

\* np.linspace(lo, hi, N + 1)[i], i in 0..N
bin_edge(e, N, i) ==
    Float(e.lo.n * e.hi.d * N + i * (e.hi.n * e.lo.d - e.lo.n * e.hi.d),
          e.lo.d * e.hi.d * N)

\* whether np.histogram counts v: a finite value within the outer edges
in_range(v, e) == v.k = "fin" /\ RatLeq(e.lo, v) /\ RatLeq(v, e.hi)

\* the bin (1..N) of a value within the outer edges: bins are closed on the
\* left and open on the right, but the last one is closed on both sides
bin_of(v, e, N) ==
    Min2(N, 1 + ((v.n * e.lo.d - e.lo.n * v.d) * e.hi.d * N)
                    \div (v.d * (e.hi.n * e.lo.d - e.lo.n * e.hi.d)))

\* the counts and edges of np.histogram for outer edges e
histogram_counts(a, N, e) ==
    [err       |-> None,
     hist      |-> [j \in 1..N |->
                       Cardinality({i \in DOMAIN a :
                                       in_range(a[i], e) /\ bin_of(a[i], e, N) = j})],
     bin_edges |-> [i \in 1..(N + 1) |-> bin_edge(e, N, i - 1)]]

\* np.histogram(a, bins=N, range=(lo, hi)) as lines 116 and 133 call it
np_histogram(a, N, rng) ==
    IF rng.lo.k # "fin" \/ rng.hi.k # "fin"
    THEN [err |-> Error("ValueError", "supplied range is not finite")]
    ELSE IF ~RatLeq(rng.lo, rng.hi)
    THEN [err |-> Error("ValueError", "max must be larger than min in range parameter")]
    ELSE histogram_counts(a, N, outer_edges(rng))

\* lines 116-117, for the histogram h of a band and the outcome rest of the
\* bands after it
histogram_append(h, rest) ==
    IF h.err # None THEN [err |-> h.err, histograms |-> << >>]
    ELSE IF rest.err # None THEN rest
    ELSE [err |-> None,
          histograms |-> <<[hist |-> h.hist, bin_edges |-> h.bin_edges]>> \o rest.histograms]

RECURSIVE histogram_loop(_, _, _, _, _)
\* lines 113-117 for band k, with rng the range_values after line 114:
\* range_values is assigned once, at the first band, and is no longer None
\* at the bands after it
histogram_band(bands, k, N, rng, mask_) ==
    IF rng = None
    THEN [err |-> Error("ValueError", "zero-size array to reduction operation minimum"),
          histograms |-> << >>]
    ELSE histogram_append(np_histogram(band_values(bands[k], mask_), N, rng),
                          histogram_loop(bands, k + 1, N, rng, mask_))

\* lines 101-117: the loop over the bands from band k on, with rng the value
\* of range_values when the iteration starts
histogram_loop(bands, k, N, rng, mask_) ==
    IF k > Len(bands) THEN [err |-> None, histograms |-> << >>]
    ELSE histogram_band(bands, k, N, range_of(band_values(bands[k], mask_), rng), mask_)

\* lines 120-134: a single band
histogram_single(band_data, N, rng) ==
    IF rng = None
    THEN [err |-> Error("ValueError", "zero-size array to reduction operation minimum"),
          histograms |-> << >>]
    ELSE histogram_append(np_histogram(band_data, N, rng), [err |-> None, histograms |-> << >>])

\* lines 96-138, for the outcome h: an exception is printed and None
\* returned; the list returned is the field histograms of ret
histogram_return(h) ==
    IF h.err # None THEN [ret |-> None, logged |-> <<h.err>>]
    ELSE [ret |-> [histograms |-> h.histograms], logged |-> << >>]

\* calculate_histogram(image_data, bins, range_values, mask): a 3-D array
\* has the field bands, a 2-D array the field px
calculate_histogram(image_data_, N, rng, mask_) ==
    IF "bands" \in DOMAIN image_data_
    THEN histogram_return(histogram_loop(image_data_.bands, 1, N, rng, mask_))
    ELSE histogram_return(histogram_single(band_values(image_data_, mask_), N,
                                           range_of(band_values(image_data_, mask_), rng)))

RECURSIVE RatSum(_)
\* the sum of the finite values of a
RatSum(a) == IF a = << >> THEN Rat(0, 1) ELSE RatAdd(Head(a), RatSum(Tail(a)))

\* np.mean of finite values
np_mean(a) == Float(RatSum(a).n, RatSum(a).d * Len(a))

\* the values of a in ascending order
sorted(a) ==
    LET perm == CHOOSE f \in [DOMAIN a -> DOMAIN a] :
                    /\ \A i, j \in DOMAIN a : i # j => f[i] # f[j]
                    /\ \A i, j \in DOMAIN a : i < j => ScalarLeq(a[f[i]], a[f[j]])
    IN  [i \in DOMAIN a |-> a[perm[i]]]

\* np.median of finite values
np_median(a) ==
    IF Len(a) % 2 = 1 THEN sorted(a)[(Len(a) + 1) \div 2]
    ELSE np_mean(<<sorted(a)[Len(a) \div 2], sorted(a)[Len(a) \div 2 + 1]>>)

\* the squared deviations of the values of a from m
deviations(a, m) == [i \in DOMAIN a |-> RatMul(RatSub(a[i], m), RatSub(a[i], m))]

\* np.std of finite values: 0 where all are equal, and otherwise the square
\* root of the variance, kept as the variance it is the root of
np_std(a) ==
    IF np_mean(deviations(a, np_mean(a))).n = 0 THEN Float(0, 1)
    ELSE [sqrt |-> np_mean(deviations(a, np_mean(a)))]

\* lines 223-230: the statistics of band i
band_stats(i, band_data) ==
    [band |-> i, min |-> np_min(band_data), max |-> np_max(band_data),
     mean |-> np_mean(band_data), std |-> np_std(band_data),
     median |-> np_median(band_data), count |-> Len(band_data)]

\* create_histogram_plot with a save_path: the fourth band is to be drawn in
\* the colour 'alpha', which matplotlib does not know; the exception is
\* printed and None returned
create_histogram_plot(histogram_data) ==
    IF Len(histogram_data) >= 4 THEN None ELSE [path |-> "histogram.png"]

\* lines 192-247, for the data and metadata read and the outcome h of
\* calculate_histogram(data, bins=bins): np.min raises on a band without a
\* valid pixel, and the exception is printed and None returned
histogram_result(rd, h, N) ==
    IF h.ret = None THEN [ret |-> None, logged |-> rd.logged \o h.logged]
    ELSE IF \E i \in DOMAIN rd.data.bands : band_values(rd.data.bands[i], None) = << >>
    THEN [ret |-> None,
          logged |-> <<Error("ValueError", "zero-size array to reduction operation minimum")>>]
    ELSE [ret |-> [histogram_data |-> h.ret.histograms,
                   statistics |-> [i \in DOMAIN h.ret.histograms |->
                                      band_stats(i, band_values(rd.data.bands[i], None))],
                   plot_path |-> create_histogram_plot(h.ret.histograms),
                   metadata |-> rd.metadata,
                   bins |-> N],
          logged |-> << >>]

\* lines 188-193, for the outcome rd of read_geotiff
histogram_read(rd, N) ==
    IF rd.data = None THEN [ret |-> None, logged |-> rd.logged]
    ELSE histogram_result(rd, calculate_histogram(rd.data, N, None, None), N)

\* process_geotiff_histogram(file_path, output_dir, bins), for the dataset ds
\* at file_path
process_geotiff_histogram(ds, N) == histogram_read(read_geotiff(ds), N)

----------------------------------------------------------------------------
(* utils/timeout_control.py.  time.time() and the alarm clock of the       *)
(* process are the variable now, in whole seconds.                         *)

\* a reading of time.time()
Time(t) == [time |-> t]

\* raise TimeoutError(...)
TimeoutError == Error("TimeoutError", "timed out")

\* ProcessTimer(name, timeout_seconds)
ProcessTimer(timeout_seconds) ==
    [timeout_seconds |-> timeout_seconds, start_time |-> None, end_time |-> None]

\* ProcessTimer.start at time t
timer_start(self, t) == [self EXCEPT !.start_time = Time(t)]

\* ProcessTimer.stop at time t: the elapsed time, 0 for a timer never started
timer_stop(self, t) ==
    IF self.start_time = None THEN [self |-> self, ret |-> 0]
    ELSE [self |-> [self EXCEPT !.end_time = Time(t)], ret |-> t - self.start_time.time]

\* ProcessTimer.check_timeout at time t, with the comparison of line 84
\* taken as "elapsed >= self.timeout_seconds"
check_timeout_at_ceiling(self, t) ==
    IF self.start_time = None THEN [ret |-> [value |-> FALSE], raised |-> None]
    ELSE IF t - self.start_time.time >= self.timeout_seconds
    THEN [ret |-> None, raised |-> TimeoutError]
    ELSE [ret |-> [value |-> FALSE], raised |-> None]

\* ProcessTimer.check_timeout at time t
check_timeout(self, t) ==
    IF self.start_time = None THEN [ret |-> [value |-> FALSE], raised |-> None]
    ELSE IF t - self.start_time.time > self.timeout_seconds
    THEN [ret |-> None, raised |-> TimeoutError]
    ELSE [ret |-> [value |-> FALSE], raised |-> None]

\* BatchProcessingTimer(total_items, timeout_per_item)
BatchProcessingTimer(total_items, timeout_per_item) ==
    [total_items |-> total_items, timeout_per_item |-> timeout_per_item,
     processed_items |-> 0, start_time |-> None, failed_items |-> << >>]

\* lines 159-160: the batch timer is started by the first item
batch_started(self, t) ==
    IF self.start_time = None THEN [self EXCEPT !.start_time = Time(t)] ELSE self

\* BatchProcessingTimer.process_item(item_id, func) entered at time t, for a
\* func that runs for duration seconds and then returns the value outcome.value
\* or raises outcome.raised.  item_timer is started and stopped and never
\* asked check_timeout: only an exception of func reaches the except clauses.
process_item(self, item_id, t, duration, outcome) ==
    IF outcome.raised = None
    THEN [self   |-> [batch_started(self, t) EXCEPT !.processed_items = @ + 1],
          ret    |-> outcome.value, raised |-> None,
          elapsed |-> timer_stop(timer_start(ProcessTimer(self.timeout_per_item), t),
                                 t + duration).ret]
    ELSE [self   |-> [batch_started(self, t) EXCEPT !.failed_items = Append(@, item_id)],
          ret    |-> None, raised |-> outcome.raised,
          elapsed |-> duration]

\* the state of SIGALRM in the process: the handler installed and the time
\* the pending alarm is due (None: no alarm pending)
Sigalrm(handler, alarm) == [handler |-> handler, alarm |-> alarm]

\* lines 26 and 29 at time t: signal.signal installs timeout_handler and
\* signal.alarm(seconds) replaces whatever alarm was pending
context_enter(sig, seconds, t) == Sigalrm("timeout_handler", Time(t + seconds))

\* the frame of a timeout_context entered at time t: its argument, the
\* handler it found installed, and the time of entry
context_frame(sig, seconds, t) ==
    [seconds |-> seconds, old_handler |-> sig.handler, entered |-> t]

\* lines 35-36: signal.alarm(0) cancels the pending alarm, whoever set it,
\* and the handler found at entry is installed again
context_exit(sig, frame) == Sigalrm(frame.old_handler, None)

RECURSIVE context_unwind(_, _)
\* TimeoutError raised in the body of the innermost context: lines 31-36 of
\* each context on the stack, from the innermost (the last) outwards
context_unwind(sig, stack) ==
    IF stack = << >> THEN sig
    ELSE context_unwind(context_exit(sig, stack[Len(stack)]), SubSeq(stack, 1, Len(stack) - 1))

----------------------------------------------------------------------------
(* utils/memory_monitor.py.  A reading of psutil is a number of megabytes  *)
(* [mb |-> n], or Failed where psutil raises.                              *)

Failed == [failed |-> TRUE]

MB(n) == [mb |-> n]

\* MemoryMonitor.get_memory_usage / get_available_memory: 0.0 where psutil
\* raises
reading_or_zero(reading) == IF reading = Failed THEN 0 ELSE reading.mb

\* MemoryMonitor.get_memory_stats for the readings rss and available: the
\* dict, or {} (None here) where line 65 divides by max_memory_mb = 0.
\* usage_percent is left out: no caller in the decorator reads it.
get_memory_stats(max_memory_mb, initial_memory, rss, available) ==
    IF max_memory_mb = 0 THEN None
    ELSE [current_mb   |-> reading_or_zero(rss),
          available_mb |-> reading_or_zero(available),
          increase_mb  |-> reading_or_zero(rss) - initial_memory,
          max_limit_mb |-> max_memory_mb]

\* stats.get(key, 0) for the two keys the decorator compares
stats_available(stats) == IF stats = None THEN 0 ELSE stats.available_mb

stats_increase(stats) == IF stats = None THEN 0 ELSE stats.increase_mb

\* lines 84-86: the garbage-collection passes before func
gc_before(initial_stats) == IF stats_available(initial_stats) < 200 THEN 1 ELSE 0

\* lines 92-99: the garbage-collection passes after func returned
gc_after(final_stats) == IF stats_increase(final_stats) > 100 THEN 1 ELSE 0

\* lines 88-109, for the outcome of func and the statistics read before and
\* after it: a MemoryError is followed by a garbage-collection pass, and
\* every exception is raised again
monitor_outcome(outcome, initial_stats, final_stats) ==
    IF outcome.raised = None
    THEN [ret |-> outcome.value, raised |-> None, calls |-> 1,
          gc_passes |-> gc_before(initial_stats) + gc_after(final_stats)]
    ELSE [ret |-> None, raised |-> outcome.raised, calls |-> 1,
          gc_passes |-> gc_before(initial_stats)
                        + (IF outcome.raised.type = "MemoryError" THEN 1 ELSE 0)]

\* the wrapper with func left out where available memory is low
memory_monitor_skipping(max_memory_mb, readings, outcome) ==
    IF reading_or_zero(readings.available) < 200 /\ max_memory_mb # 0
    THEN [ret |-> None, raised |-> None, calls |-> 0, gc_passes |-> 1]
    ELSE monitor_outcome(outcome,
             get_memory_stats(max_memory_mb, reading_or_zero(readings.rss_init),
                              readings.rss_before, readings.available),
             get_memory_stats(max_memory_mb, reading_or_zero(readings.rss_init),
                              readings.rss_after, readings.available))

\* the wrapper of memory_monitor(max_memory_mb)(func), for the readings of
\* psutil at the construction of the MemoryMonitor (rss_init), before func
\* (rss_before, available) and after it (rss_after, available), and the
\* outcome of func
memory_monitor(max_memory_mb, readings, outcome) ==
    monitor_outcome(outcome,
        get_memory_stats(max_memory_mb, reading_or_zero(readings.rss_init),
                         readings.rss_before, readings.available),
        get_memory_stats(max_memory_mb, reading_or_zero(readings.rss_init),
                         readings.rss_after, readings.available))

----------------------------------------------------------------------------
(* The requests                                                            *)

\* band and pixel values of the rasters analysed: zero, the smallest step,
\* and values whose sums and doubles pass 2^8; the product of two samples
\* stays below 2^31
Samples(t) ==
    CASE t = "uint8"   -> {UInt(t, v) : v \in {0, 1, 100, 200}}
      [] t = "uint16"  -> {UInt(t, v) : v \in {0, 1, 100, 20000}}
      [] t = "float64" -> {Float(v, 1) : v \in {0, 1, 100, 200}}

\* the BandSets (the dict image_bands): some roles, each with a one-pixel
\* band, all of one dtype
BandSets ==
    UNION {[present -> {ndarray(<<x>>) : x \in Samples(t)}] : present \in SUBSET Roles, t \in DTypes}

\* the algorithm names requested: the registry's and one that is not in it
\* (calculate_mcari_advanced is defined but not registered)
RequestedAlgorithms == VEGETATION_ALGORITHMS \cup {"mcari"}

\* the names requested of VegetationAnalyzer.analyze; "evi" is no method
AnalyzerRequests == {"ndvi", "gli", "vari", "exg", "tgi", "evi"}

\* the number of values of int(np.random.rand() * 10000) explored
RandomRange == 2

\* the longest index array and the most pixels of an image
MaxPixels == 2

\* the colours of the images: channels of 0, 1 and 200, and red 100, green
\* 150, blue 80
Colours ==
    {[b |-> UInt("uint8", b), g |-> UInt("uint8", g), r |-> UInt("uint8", r)] :
        b \in {0, 1, 200}, g \in {0, 1, 200}, r \in {0, 1, 200}}
    \cup {[b |-> UInt("uint8", 80), g |-> UInt("uint8", 150), r |-> UInt("uint8", 100)]}

\* the images cv2.imread gives: up to MaxPixels pixels of one colour
Images == {ndarray([i \in 1..n |-> c]) : c \in Colours, n \in 1..MaxPixels}

Palettes == {"rdylgn", "viridis", "nosuch"}

ColorPixels == {PixNaN, PixInt(-1), PixInt(0), Pix(Float(1, 2)), PixInt(1), PixInt(3), Pix(PInf)}

RECURSIVE ArraysUpTo(_)
ArraysUpTo(n) ==
    IF n = 0 THEN {<< >>}
    ELSE ArraysUpTo(n - 1) \cup
         {Append(a, v) : a \in {x \in ArraysUpTo(n - 1) : Len(x) = n - 1}, v \in ColorPixels}

RangeArgs == {None, PixInt(0), PixInt(1)}

\* the value of an argument the entry point called does not take
NoName == "none"

\* the arguments of the entry points of utils/histogram_geotiff.py
RasterInputs ==
    <<dataset, output_dir, metadata, writable, image_data, bins, range_values, mask>>

\* no argument of utils/histogram_geotiff.py is part of the call
NoRasterInputs ==
    /\ dataset = None /\ output_dir = None /\ metadata = None /\ writable = TRUE
    /\ image_data = None /\ bins = 0 /\ range_values = None /\ mask = None

\* the most bands of a raster file
MaxBands == 5

\* the band values of the raster files
FileSamples(t) ==
    IF t = "uint8" THEN {UInt(t, v) : v \in {0, 100, 200}}
    ELSE {Float(v, 1) : v \in {0, 100, 200}}

RECURSIVE BandLists(_, _)
\* the sequences of n one-pixel bands of dtype t
BandLists(n, t) ==
    IF n = 0 THEN {<< >>}
    ELSE {Append(b, ndarray(<<x>>)) : b \in BandLists(n - 1, t), x \in FileSamples(t)}

\* the files: none, an unreadable one, a raster without bands, a raster of
\* bands without pixels, and rasters of 1..MaxBands bands
Datasets ==
    {Dataset("missing", "none", << >>), Dataset("corrupt", "none", << >>),
     Dataset("raster", "uint8", << >>), Dataset("raster", "uint8", <<ndarray(<< >>)>>)}
    \cup UNION {{Dataset("raster", t, b) : b \in BandLists(n, t)} :
                 t \in {"uint8", "float64"}, n \in 1..MaxBands}

\* output_dir: None, or a directory and whether the two files can be written
OutputDirs ==
    {None} \cup {[name |-> "out", tif_ok |-> t, png_ok |-> g] : t, g \in BOOLEAN}

\* the most bands of an array handed to calculate_histogram
MaxHistBands == 2

\* the values of the 2-D arrays, of the bands of the 3-D arrays and of the
\* bands of the raster files
HistValues2D == {NaN, Float(0, 1), Float(1, 1), Float(3, 1), PInf}

HistValues3D == <<NaN, Float(0, 1), Float(1, 1), Float(3, 1)>>

HistFileValues == <<NaN, Float(0, 1), Float(3, 1)>>

\* the 2-D arrays of up to MaxPixels pixels, the empty one among them
HistArrays2D ==
    UNION {{ndarray(px) : px \in [1..L -> HistValues2D]} : L \in 0..MaxPixels}

\* the bands of L pixels, each a value of the sequence V, in the order of V:
\* a histogram and the statistics do not depend on the order of the pixels,
\* and the masks leave out any one of them
OrderedBands(V, L) ==
    {ndarray([i \in 1..L |-> V[f[i]]]) :
        f \in {g \in [1..L -> 1..Len(V)] : \A i \in 1..(L - 1) : g[i] <= g[i + 1]}}

\* the 3-D arrays of up to MaxHistBands such bands of equally many pixels
Arrays3D(V) ==
    UNION {{ndarray3(b) : b \in [1..n -> OrderedBands(V, L)]} :
              n \in 1..MaxHistBands, L \in 1..MaxPixels}

HistArrays3D == Arrays3D(HistValues3D)

\* the number of pixels of a band of the array d
PixelCount(d) == IF "bands" \in DOMAIN d THEN Len(d.bands[1].px) ELSE Len(d.px)

\* no mask, the mask that selects every pixel, and the masks that leave one
\* pixel out
Masks(L) == {None} \cup {[sel |-> [i \in 1..L |-> i # j]] : j \in 0..L}

Bins == {1, 2, 4}

HistRanges == {None, [lo |-> Float(0, 1), hi |-> Float(2, 1)]}

\* the raster files handed to process_geotiff_histogram
HistDatasets ==
    {Dataset("missing", "none", << >>)}
    \cup {Dataset("raster", "float64", d.bands) : d \in Arrays3D(HistFileValues)}

InitComprehensive ==
    /\ entry = "analyze_vegetation_comprehensive"
    /\ image_bands \in BandSets
    /\ algorithm \in RequestedAlgorithms
    /\ colormap \in {"rdylgn", "viridis"}
    /\ image = None /\ ranges = << >> /\ data = None /\ min_val = None /\ max_val = None
    /\ NoRasterInputs

InitAnalyze ==
    /\ entry = "VegetationAnalyzer.analyze"
    /\ image \in Images
    /\ algorithm \in AnalyzerRequests
    /\ ranges \in {<<-1, 1>>, <<0, 1>>}
    /\ colormap \in {"rdylgn", "viridis"}
    /\ image_bands = << >> /\ data = None /\ min_val = None /\ max_val = None
    /\ NoRasterInputs

InitColormap ==
    /\ entry = "apply_colormap"
    /\ (data = None \/ data \in {ndarray(a) : a \in ArraysUpTo(MaxPixels)})
    /\ colormap \in Palettes
    /\ min_val \in RangeArgs
    /\ max_val \in RangeArgs
    /\ image_bands = << >> /\ image = None /\ algorithm = NoName /\ ranges = << >>
    /\ NoRasterInputs

\* the arguments of the entry points of the other modules are not part of
\* the call
NoIndexInputs ==
    /\ image_bands = << >> /\ image = None /\ colormap = NoName /\ ranges = << >>
    /\ data = None /\ min_val = None /\ max_val = None

InitReadGeotiff ==
    /\ entry = "read_geotiff"
    /\ dataset \in Datasets
    /\ algorithm = NoName /\ output_dir = None /\ metadata = None /\ writable = TRUE
    /\ image_data = None /\ bins = 0 /\ range_values = None /\ mask = None
    /\ NoIndexInputs

InitFromGeotiff ==
    /\ entry = "analyze_vegetation_from_geotiff"
    /\ dataset \in Datasets
    /\ algorithm \in {"ndvi", "gli", "tgi", "gndvi", "cvi", "mcari"}
    /\ output_dir \in OutputDirs
    /\ metadata = None /\ writable = TRUE
    /\ image_data = None /\ bins = 0 /\ range_values = None /\ mask = None
    /\ NoIndexInputs

\* the metadata dicts handed to write_geotiff: those read_geotiff returns
\* for a file of one band of n pixels
Metadatas(n) ==
    {[crs |-> c, transform |-> t, width |-> n, height |-> 1, count |-> 1, dtype |-> "float64"] :
        c \in {"EPSG:32636", "EPSG:4326"}, t \in {"affine", "identity"}}

\* write_geotiff(filename, data, metadata) of an index array, then
\* read_geotiff(filename)
InitWriteGeotiff ==
    /\ entry = "write_geotiff"
    /\ data \in {ndarray(a) : a \in ArraysUpTo(MaxPixels) \ {<< >>}}
    /\ metadata \in Metadatas(Len(data.px))
    /\ writable \in BOOLEAN
    /\ dataset = None /\ output_dir = None /\ algorithm = NoName
    /\ image_data = None /\ bins = 0 /\ range_values = None /\ mask = None
    /\ image_bands = << >> /\ image = None /\ colormap = NoName /\ ranges = << >>
    /\ min_val = None /\ max_val = None

InitHistogram ==
    /\ entry = "calculate_histogram"
    /\ image_data \in HistArrays2D \cup HistArrays3D
    /\ bins \in Bins
    /\ range_values \in HistRanges
    /\ mask \in Masks(PixelCount(image_data))
    /\ dataset = None /\ output_dir = None /\ algorithm = NoName
    /\ metadata = None /\ writable = TRUE
    /\ NoIndexInputs

InitProcessHistogram ==
    /\ entry = "process_geotiff_histogram"
    /\ dataset \in HistDatasets
    /\ bins \in Bins
    /\ output_dir = None /\ algorithm = NoName /\ metadata = None /\ writable = TRUE
    /\ image_data = None /\ range_values = None /\ mask = None
    /\ NoIndexInputs

\* the longest time followed, the most items of a batch and the deepest
\* nesting of timeout_context
MaxTime == 4

MaxItems == 2

MaxDepth == 2

\* the ceilings handed to the timers and to timeout_context, in seconds
Ceilings == {1, 2}

\* what the function wrapped does: it returns a value or raises
FuncOutcomes ==
    {[value |-> [value |-> "result"], raised |-> None],
     [value |-> None, raised |-> Error("RuntimeError", "func failed")],
     [value |-> None, raised |-> Error("MemoryError", "out of memory")],
     [value |-> None, raised |-> TimeoutError]}

\* the state of utils/timeout_control.py and utils/memory_monitor.py
RuntimeVars ==
    <<now, timer, batch, work, sigalrm, contexts, func, memory, calls, gc_passes>>

\* no timer, no alarm and no monitor is part of the call
NoRuntime ==
    /\ now = 0 /\ timer = None /\ batch = None /\ work = None
    /\ sigalrm = Sigalrm("SIG_DFL", None) /\ contexts = << >>
    /\ func = None /\ memory = None /\ calls = 0 /\ gc_passes = 0

\* no argument of the analysis modules is part of the call
NoAnalysis == NoIndexInputs /\ NoRasterInputs /\ algorithm = NoName

InitProcessTimer ==
    /\ entry = "ProcessTimer"
    /\ now = 0
    /\ timer \in {ProcessTimer(c) : c \in Ceilings}
    /\ batch = None /\ work = None
    /\ sigalrm = Sigalrm("SIG_DFL", None) /\ contexts = << >>
    /\ func = None /\ memory = None /\ calls = 0 /\ gc_passes = 0

InitBatch ==
    /\ entry = "BatchProcessingTimer.process_item"
    /\ now = 0
    /\ batch \in {BatchProcessingTimer(MaxItems, c) : c \in Ceilings}
    /\ timer = None /\ work = None
    /\ sigalrm = Sigalrm("SIG_DFL", None) /\ contexts = << >>
    /\ func = None /\ memory = None /\ calls = 0 /\ gc_passes = 0

InitTimeoutContext ==
    /\ entry = "timeout_context"
    /\ now = 0
    /\ sigalrm = Sigalrm("SIG_DFL", None) /\ contexts = << >>
    /\ timer = None /\ batch = None /\ work = None
    /\ func = None /\ memory = None /\ calls = 0 /\ gc_passes = 0

InitMemoryMonitor ==
    /\ entry = "memory_monitor"
    /\ memory \in [max_memory_mb : {0, 1024},
                    rss_init : {Failed, MB(100), MB(300)},
                    rss_before : {Failed, MB(100), MB(300)},
                    rss_after : {Failed, MB(100), MB(300)},
                    available : {Failed, MB(100), MB(500)}]
    /\ func \in FuncOutcomes
    /\ calls = 0 /\ gc_passes = 0
    /\ now = 0 /\ timer = None /\ batch = None /\ work = None
    /\ sigalrm = Sigalrm("SIG_DFL", None) /\ contexts = << >>

Init ==
    /\ pc = "ready"
    /\ ret = None /\ raised = None /\ logged = << >> /\ files = << >>
    /\ paths = << >>
    /\ \/ /\ \/ InitComprehensive \/ InitAnalyze \/ InitColormap
             \/ InitReadGeotiff \/ InitFromGeotiff
             \/ InitHistogram \/ InitProcessHistogram
             \/ InitWriteGeotiff
          /\ NoRuntime
       \/ /\ \/ InitProcessTimer \/ InitBatch \/ InitTimeoutContext
             \/ InitMemoryMonitor
          /\ NoAnalysis

Inputs == <<entry, image_bands, image, algorithm, colormap, ranges, data, min_val, max_val>>


\* the files after writing the files of the sequence written
Written(old, written) ==
    [p \in DOMAIN old \cup {written[i].path : i \in 1..Len(written)} |->
        IF \E i \in 1..Len(written) : written[i].path = p
        THEN (CHOOSE w \in {written[i] : i \in 1..Len(written)} : w.path = p).content
        ELSE old[p]]

AnalyzeVegetationComprehensive ==
    /\ pc = "ready" /\ entry = "analyze_vegetation_comprehensive"
    /\ \E out \in {analyze_vegetation_comprehensive(image_bands, algorithm, colormap)} :
         /\ ret' = out.ret
         /\ raised' = out.raised
         /\ logged' = out.logged
    /\ pc' = "done"
    /\ UNCHANGED <<RuntimeVars, paths>>
    /\ UNCHANGED <<Inputs, RasterInputs, files>>

Analyze ==
    /\ pc = "ready" /\ entry = "VegetationAnalyzer.analyze"
    /\ \E rnd \in 0..(RandomRange - 1), cast \in CastModes :
         \E out \in {analyze(image, algorithm, ranges, colormap, rnd, cast)} :
           /\ ret' = out.ret
           /\ raised' = out.raised
           /\ logged' = out.logged
           /\ files' = Written(files, out.written)
           /\ paths' = IF out.ret = None THEN paths ELSE Append(paths, out.ret.path)
    /\ pc' = "done"
    /\ UNCHANGED RuntimeVars
    /\ UNCHANGED <<Inputs, RasterInputs>>

\* a later analyze(algorithm, ranges, colormap) on the same
\* VegetationAnalyzer, with the arguments of the call that returned
AnalyzeAgain ==
    /\ pc = "done" /\ entry = "VegetationAnalyzer.analyze"
    /\ paths # << >>
    /\ \E rnd \in 0..(RandomRange - 1), cast \in CastModes :
         \E out \in {analyze(image, algorithm, ranges, colormap, rnd, cast)} :
           /\ ret' = out.ret
           /\ raised' = out.raised
           /\ logged' = out.logged
           /\ files' = Written(files, out.written)
           /\ paths' = IF out.ret = None THEN paths ELSE Append(paths, out.ret.path)
    /\ pc' = "repeated"
    /\ UNCHANGED RuntimeVars
    /\ UNCHANGED <<Inputs, RasterInputs>>

ApplyColormap ==
    /\ pc = "ready" /\ entry = "apply_colormap"
    /\ \E out \in {apply_colormap(data, colormap, min_val, max_val)} :
         /\ ret' = out.image
         /\ raised' = out.raised
         /\ logged' = out.logged
    /\ pc' = "done"
    /\ UNCHANGED <<RuntimeVars, paths>>
    /\ UNCHANGED <<Inputs, RasterInputs, files>>

ReadGeotiff ==
    /\ pc = "ready" /\ entry = "read_geotiff"
    /\ \E out \in {read_geotiff(dataset)} :
         /\ ret' = [data |-> out.data, metadata |-> out.metadata]
         /\ logged' = out.logged
    /\ raised' = None
    /\ pc' = "done"
    /\ UNCHANGED <<RuntimeVars, paths>>
    /\ UNCHANGED <<Inputs, RasterInputs, files>>

AnalyzeVegetationFromGeotiff ==
    /\ pc = "ready" /\ entry = "analyze_vegetation_from_geotiff"
    /\ \E out \in {analyze_vegetation_from_geotiff(dataset, algorithm, output_dir)} :
         /\ ret' = out.ret
         /\ raised' = out.raised
         /\ logged' = out.logged
         /\ image_bands' = out.image_bands
         /\ files' = Written(files, out.written)
    /\ pc' = "done"
    /\ UNCHANGED <<RuntimeVars, paths>>
    /\ UNCHANGED <<entry, image, algorithm, colormap, ranges, data, min_val, max_val,
                   RasterInputs>>

CalculateHistogram ==
    /\ pc = "ready" /\ entry = "calculate_histogram"
    /\ \E out \in {calculate_histogram(image_data, bins, range_values, mask)} :
         /\ ret' = out.ret
         /\ logged' = out.logged
    /\ raised' = None
    /\ pc' = "done"
    /\ UNCHANGED <<RuntimeVars, paths>>
    /\ UNCHANGED <<Inputs, RasterInputs, files>>

ProcessGeotiffHistogram ==
    /\ pc = "ready" /\ entry = "process_geotiff_histogram"
    /\ \E out \in {process_geotiff_histogram(dataset, bins)} :
         /\ ret' = out.ret
         /\ logged' = out.logged
         /\ files' = IF out.ret = None \/ out.ret.plot_path = None THEN files
                     ELSE Written(files, <<[path |-> out.ret.plot_path,
                                            content |-> [driver |-> "PNG"]]>>)
    /\ raised' = None
    /\ pc' = "done"
    /\ UNCHANGED <<RuntimeVars, paths>>
    /\ UNCHANGED <<Inputs, RasterInputs>>

\* the path handed to write_geotiff and then to read_geotiff
RoundTripPath == <<"out", "index", "analysis.tif">>

WriteGeotiff ==
    /\ pc = "ready" /\ entry = "write_geotiff"
    /\ \E out \in {write_geotiff(RoundTripPath, data, metadata, writable)} :
         /\ ret' = [ok |-> out.ok]
         /\ files' = Written(files, out.written)
    /\ pc' = "written"
    /\ UNCHANGED <<RuntimeVars, paths>>
    /\ UNCHANGED <<Inputs, RasterInputs, raised, logged>>

\* read_geotiff(filename) of the path write_geotiff was handed
ReadWritten ==
    /\ pc = "written" /\ entry = "write_geotiff"
    /\ dataset' = file_dataset(files, RoundTripPath)
    /\ \E out \in {read_geotiff(file_dataset(files, RoundTripPath))} :
         /\ ret' = [ok |-> ret.ok, data |-> out.data, metadata |-> out.metadata]
         /\ logged' = logged \o out.logged
    /\ pc' = "done"
    /\ UNCHANGED <<RuntimeVars, paths>>
    /\ UNCHANGED <<Inputs, output_dir, metadata, writable, image_data, bins, range_values,
                   mask, raised, files>>

\* the variables of the analysis modules
AnalysisVars == <<Inputs, RasterInputs, files, logged, paths>>

TimerStart ==
    /\ pc = "ready" /\ entry = "ProcessTimer"
    /\ timer' = timer_start(timer, now)
    /\ UNCHANGED <<pc, ret, raised, AnalysisVars, now, batch, work, sigalrm, contexts,
                   func, memory, calls, gc_passes>>

TimerStop ==
    /\ pc = "ready" /\ entry = "ProcessTimer"
    /\ timer' = timer_stop(timer, now).self
    /\ UNCHANGED <<pc, ret, raised, AnalysisVars, now, batch, work, sigalrm, contexts,
                   func, memory, calls, gc_passes>>

\* a second passes
TimerTick ==
    /\ pc = "ready" /\ entry = "ProcessTimer"
    /\ now < MaxTime
    /\ now' = now + 1
    /\ UNCHANGED <<pc, ret, raised, AnalysisVars, timer, batch, work, sigalrm, contexts,
                   func, memory, calls, gc_passes>>

CheckTimeout ==
    /\ pc = "ready" /\ entry = "ProcessTimer"
    /\ \E out \in {check_timeout(timer, now)} :
         /\ ret' = out.ret
         /\ raised' = out.raised
    /\ pc' = "done"
    /\ UNCHANGED <<AnalysisVars, RuntimeVars>>

\* process_item(item_id, func) for the next item: func runs for duration
\* seconds and ends as outcome says
ProcessItem ==
    /\ pc = "ready" /\ entry = "BatchProcessingTimer.process_item"
    /\ \E duration \in 0..(MaxTime - now), outcome \in FuncOutcomes :
         \E item_id \in {batch.processed_items + Len(batch.failed_items) + 1} :
           \E out \in {process_item(batch, item_id, now, duration, outcome)} :
             /\ batch' = out.self
             /\ ret' = out.ret
             /\ raised' = out.raised
             /\ now' = now + duration
             /\ func' = outcome
             /\ work' = [item_id |-> item_id, duration |-> duration,
                         processed_before |-> batch.processed_items]
             /\ pc' = IF item_id >= MaxItems THEN "done" ELSE "ready"
    /\ UNCHANGED <<AnalysisVars, timer, sigalrm, contexts, memory, calls, gc_passes>>

\* with timeout_context(seconds): entered
EnterContext ==
    /\ pc = "ready" /\ entry = "timeout_context"
    /\ Len(contexts) < MaxDepth
    /\ \E seconds \in Ceilings :
         /\ contexts' = Append(contexts, context_frame(sigalrm, seconds, now))
         /\ sigalrm' = context_enter(sigalrm, seconds, now)
    /\ UNCHANGED <<pc, ret, raised, AnalysisVars, now, timer, batch, work, func, memory,
                   calls, gc_passes>>

\* the body of the innermost context ends without an exception
ExitContext ==
    /\ pc = "ready" /\ entry = "timeout_context"
    /\ contexts # << >>
    /\ sigalrm' = context_exit(sigalrm, contexts[Len(contexts)])
    /\ contexts' = SubSeq(contexts, 1, Len(contexts) - 1)
    /\ pc' = IF Len(contexts) = 1 THEN "done" ELSE "ready"
    /\ UNCHANGED <<ret, raised, AnalysisVars, now, timer, batch, work, func, memory,
                   calls, gc_passes>>

\* a second passes in the body of the innermost context; a pending alarm
\* that is due is delivered to timeout_handler, and the TimeoutError it
\* raises leaves every context on the stack
AlarmTick ==
    /\ pc = "ready" /\ entry = "timeout_context"
    /\ contexts # << >>
    /\ now < MaxTime
    /\ now' = now + 1
    /\ IF sigalrm.alarm = Time(now + 1) /\ sigalrm.handler = "timeout_handler"
       THEN /\ raised' = TimeoutError
            /\ sigalrm' = context_unwind(sigalrm, contexts)
            /\ contexts' = << >>
            /\ pc' = "done"
       ELSE UNCHANGED <<raised, sigalrm, contexts, pc>>
    /\ UNCHANGED <<ret, AnalysisVars, timer, batch, work, func, memory, calls, gc_passes>>

MemoryMonitorCall ==
    /\ pc = "ready" /\ entry = "memory_monitor"
    /\ \E out \in {memory_monitor(memory.max_memory_mb, memory, func)} :
         /\ ret' = out.ret
         /\ raised' = out.raised
         /\ calls' = calls + out.calls
         /\ gc_passes' = gc_passes + out.gc_passes
    /\ pc' = "done"
    /\ UNCHANGED <<AnalysisVars, now, timer, batch, work, sigalrm, contexts, func, memory>>

Next ==
    \/ AnalyzeVegetationComprehensive \/ Analyze \/ ApplyColormap
    \/ ReadGeotiff \/ AnalyzeVegetationFromGeotiff
    \/ CalculateHistogram \/ ProcessGeotiffHistogram
    \/ WriteGeotiff \/ ReadWritten
    \/ AnalyzeAgain
    \/ TimerStart \/ TimerStop \/ TimerTick \/ CheckTimeout
    \/ ProcessItem
    \/ EnterContext \/ ExitContext \/ AlarmTick
    \/ MemoryMonitorCall

Spec == Init /\ [][Next]_vars

----------------------------------------------------------------------------
(* The properties of the specification, stated over the calls that        *)
(* returned (pc = "done").                                                 *)

Returned(name) == pc = "done" /\ entry = name

\* a finite pixel within the closed interval [-1, 1]
InUnit(v) == isfinite(v) /\ v.f = "q" /\ QCmp(v, -1, 1) >= 0 /\ QCmp(v, 1, 1) <= 0

\* the index array a finished analysis handed back
IndexPixels ==
    IF entry = "VegetationAnalyzer.analyze" THEN ret.result_array.px
    ELSE ret.analysis_data.px

\* the pixels of the band with the given role
Band(role) == image_bands[role].px

\* Section 4.2 of the specification: the band roles each algorithm requires
RequiredBands(alg) ==
    CASE alg \in {"ndvi", "savi", "msavi", "osavi", "rdvi"} -> {"red", "nir"}
      [] alg \in {"gli", "vari", "tgi"} -> {"red", "green", "blue"}
      [] alg \in {"ndwi", "gndvi", "gci"} -> {"green", "nir"}
      [] alg \in {"evi", "arvi"} -> {"red", "nir", "blue"}
      [] alg = "cvi" -> {"red", "green", "nir"}

\* C1: every pixel of an NDVI result (calculate_ndvi_advanced through
\* analyze_vegetation_comprehensive, VegetationAnalyzer.calculate_ndvi
\* through analyze), for finite non-negative band values of any dtype, is a
\* finite number in [-1, 1].
C1_NdviInRange ==
    (/\ pc = "done"
     /\ entry \in {"analyze_vegetation_comprehensive", "VegetationAnalyzer.analyze",
                  "analyze_vegetation_from_geotiff"}
     /\ algorithm = "ndvi" /\ ret # None)
        => \A i \in DOMAIN IndexPixels : InUnit(IndexPixels[i])

\* C1's case: an NDVI of 16-bit bands returned, with nir at the top of the
\* sample range above red, so that the quotient is positive and below 1
C1_Witness ==
    /\ Returned("analyze_vegetation_comprehensive") /\ algorithm = "ndvi" /\ ret # None
    /\ Band("nir")[1] = UInt("uint16", 20000)
    /\ Band("red")[1] = UInt("uint16", 100)
    /\ QCmp(ret.analysis_data.px[1], 0, 1) > 0
    /\ QCmp(ret.analysis_data.px[1], 1, 1) < 0

\* the denominator of the table formula of alg at pixel i of the bands, as
\* the exact number the band values give
TableDenominator(alg, i) ==
    CASE alg = "ndvi" -> RatAdd(Band("nir")[i], Band("red")[i])
      [] alg = "gli"  -> RatAdd(RatAdd(RatMul(Rat(2, 1), Band("green")[i]), Band("red")[i]),
                                Band("blue")[i])
      [] alg = "vari" -> RatSub(RatAdd(Band("green")[i], Band("red")[i]), Band("blue")[i])
      [] alg = "ndwi" -> RatAdd(Band("green")[i], Band("nir")[i])

\* C2: where the denominator of the table formula is exactly zero at every
\* pixel, NDVI, GLI and VARI (additive epsilon) return no NaN and NDWI
\* (documented NaN substitution) returns NaN at every pixel.
C2_ZeroDenominatorPolicy ==
    (/\ Returned("analyze_vegetation_comprehensive")
     /\ algorithm \in {"ndvi", "gli", "vari", "ndwi"}
     /\ ret # None
     /\ \A i \in DOMAIN IndexPixels : TableDenominator(algorithm, i).n = 0)
        => \A i \in DOMAIN IndexPixels : isnan(IndexPixels[i]) <=> (algorithm = "ndwi")

\* C3: every non-NaN pixel of a GLI, VARI, NDWI or SAVI result of
\* analyze_vegetation_comprehensive lies in [-1, 1].
C3_ClampedToRange ==
    (/\ Returned("analyze_vegetation_comprehensive")
     /\ algorithm \in {"gli", "vari", "ndwi", "savi"}
     /\ ret # None)
        => \A i \in DOMAIN IndexPixels : isnan(IndexPixels[i]) \/ InUnit(IndexPixels[i])

\* C4: no index function of the registry returns +Inf or -Inf at a pixel.
C4_NoInfinitePixel ==
    (Returned("analyze_vegetation_comprehensive") /\ ret # None)
        => \A i \in DOMAIN IndexPixels : IndexPixels[i].k \notin {"pinf", "ninf"}

\* the image_bands with every band converted to float64
FloatBands ==
    [role \in DOMAIN image_bands |->
        ndarray([i \in DOMAIN Band(role) |-> astype_float64(Band(role)[i])])]

\* C5: the index of unsigned 8-bit or 16-bit bands equals the index of the
\* same values given as floats: no sum, difference or product has wrapped.
C5_NoWraparound ==
    (Returned("analyze_vegetation_comprehensive") /\ ret # None)
        => ret.analysis_data = dispatch(FloatBands, algorithm).result

\* the roles named by the parameters of the registry function of alg
\* (def calculate_gndvi_advanced(green_band, nir_band), ...)
ParameterRoles(alg) ==
    CASE alg \in {"ndvi", "savi", "msavi", "osavi", "rdvi"} -> {"red", "nir"}
      [] alg \in {"gli", "vari", "tgi"} -> {"red", "green", "blue"}
      [] alg \in {"ndwi", "gndvi"} -> {"green", "nir"}
      [] alg \in {"evi", "arvi"} -> {"red", "nir", "blue"}
      [] alg \in {"cvi", "gci"} -> {"red", "green", "nir"}

\* the function of alg applied at pixel i with every parameter bound to the
\* band of the role it is named after
BoundByRole(alg, i) ==
    CASE alg = "ndvi"  -> ndvi_pixel(Band("red")[i], Band("nir")[i])
      [] alg = "savi"  -> savi_pixel(Band("red")[i], Band("nir")[i])
      [] alg = "msavi" -> msavi_pixel(Band("red")[i], Band("nir")[i])
      [] alg = "osavi" -> osavi_pixel(Band("red")[i], Band("nir")[i])
      [] alg = "rdvi"  -> rdvi_pixel(Band("red")[i], Band("nir")[i])
      [] alg = "gndvi" -> gndvi_pixel(Band("green")[i], Band("nir")[i])
      [] alg = "ndwi"  -> ndwi_pixel(Band("green")[i], Band("nir")[i])
      [] alg = "gli"   -> gli_pixel(Band("red")[i], Band("green")[i], Band("blue")[i])
      [] alg = "vari"  -> vari_pixel(Band("red")[i], Band("green")[i], Band("blue")[i])
      [] alg = "tgi"   -> tgi_pixel(Band("red")[i], Band("green")[i], Band("blue")[i])
      [] alg = "evi"   -> evi_pixel(Band("red")[i], Band("nir")[i], Band("blue")[i])
      [] alg = "arvi"  -> arvi_pixel(Band("red")[i], Band("nir")[i], Band("blue")[i])
      [] alg = "cvi"   -> cvi_pixel(Band("red")[i], Band("green")[i], Band("nir")[i])
      [] alg = "gci"   -> gci_pixel(Band("red")[i], Band("green")[i], Band("nir")[i])

\* C6: the dispatch hands every formula variable the band of its own role:
\* the result is the function of the algorithm on the bands named by its
\* parameters (GNDVI on green and nir), whatever the other bands hold.
C6_RolesBoundByName ==
    (/\ Returned("analyze_vegetation_comprehensive")
     /\ ret # None
     /\ ParameterRoles(algorithm) \subseteq DOMAIN image_bands)
        => \A i \in DOMAIN IndexPixels : IndexPixels[i] = BoundByRole(algorithm, i)

\* C7: a registered algorithm whose required roles (section 4.2) are all in
\* the BandSet returns a result, whatever other roles are absent.
C7_RequiredBandsSuffice ==
    (/\ Returned("analyze_vegetation_comprehensive")
     /\ algorithm \in VEGETATION_ALGORITHMS
     /\ RequiredBands(algorithm) \subseteq DOMAIN image_bands)
        => ret # None /\ raised = None

\* the errors a finished call reported: the one raised to the caller and
\* those it caught and logged
Reported == (IF raised = None THEN {} ELSE {raised}) \cup {logged[i] : i \in DOMAIN logged}

\* C8: when a role the algorithm requires (section 4.2) is absent from the
\* BandSet, no result is returned and a missing-band error names exactly the
\* absent roles.  The error is accepted wherever the call reports it, raised
\* or logged, so the statement asks no more than the claim does.
C8_MissingBandNamed ==
    (/\ Returned("analyze_vegetation_comprehensive")
     /\ algorithm \in VEGETATION_ALGORITHMS
     /\ RequiredBands(algorithm) \ DOMAIN image_bands # {})
        => /\ ret = None
           /\ \E e \in Reported :
                 /\ e.kind = "missing_band"
                 /\ e.roles = RequiredBands(algorithm) \ DOMAIN image_bands

\* the names an entry point knows
KnownAlgorithms ==
    IF entry = "analyze_vegetation_comprehensive" THEN VEGETATION_ALGORITHMS
    ELSE AnalyzerMethods

\* C9: a request for an algorithm name the entry point does not know ends
\* with the unsupported-algorithm error raised to the caller, in
\* analyze_vegetation_comprehensive and in VegetationAnalyzer.analyze alike,
\* with nothing returned and no image file written.
C9_UnknownAlgorithmRaises ==
    (/\ pc = "done"
     /\ entry \in {"analyze_vegetation_comprehensive", "VegetationAnalyzer.analyze"}
     /\ algorithm \notin KnownAlgorithms)
        => /\ raised # None
           /\ raised.kind = "unsupported"
           /\ ret = None
           /\ files = << >>

\* C10: apply_colormap, called without min_val and max_val on an array whose
\* valid (non-NaN) pixels all hold one value, raises nothing and returns an
\* image whose pixels all have the same colour.
C10_ConstantArrayUniform ==
    (/\ Returned("apply_colormap")
     /\ min_val = None /\ max_val = None
     /\ data # None
     /\ Cardinality(ValidPixels(data.px)) = 1)
        => /\ raised = None
           /\ ret # None
           /\ \A i, j \in DOMAIN ret.px : ret.px[i] = ret.px[j]

\* C11: apply_colormap on an array in which every value is NaN fails with an
\* error raised to the caller and returns no image.
C11_AllNaNFails ==
    (/\ Returned("apply_colormap")
     /\ data # None
     /\ Len(data.px) > 0
     /\ ValidPixels(data.px) = {})
        => raised # None /\ ret = None

\* a float64 scalar within [0, 1]
InZeroOne(x) == x.k = "fin" /\ x.n >= 0 /\ x.n <= x.d

\* C12: when a step of apply_colormap failed (the failure is logged), no
\* exception reaches the caller and the image returned has three identical
\* channels at every pixel, each a value in [0, 1].
C12_FallbackNeverRaises ==
    (Returned("apply_colormap") /\ logged # << >>)
        => /\ raised = None
           /\ ret # None
           /\ \A i \in DOMAIN ret.px :
                 /\ Len(ret.px[i]) = 3
                 /\ ret.px[i][1] = ret.px[i][2] /\ ret.px[i][2] = ret.px[i][3]
                 /\ InZeroOne(ret.px[i][1])

\* the range apply_colormap normalizes against: the one given, else the one
\* derived from the valid pixels
RangeMin == IF min_val = None THEN nanmin(data.px) ELSE min_val

RangeMax == IF max_val = None THEN nanmax(data.px) ELSE max_val

\* C13: with the fixed ramp and a range min < max, given or derived, every
\* normalized value is in [0, 1], every lookup index is in 0..N-1, a pixel at
\* or below min gets the first colour of the table and a pixel at or above
\* max the last.
C13_LookupWithinTable ==
    (/\ Returned("apply_colormap")
     /\ colormap = "rdylgn"
     /\ data # None
     /\ ValidPixels(data.px) # {}
     /\ RangeMin # RangeMax /\ PixLeq(RangeMin, RangeMax))
        => /\ raised = None /\ ret # None
           /\ \A i \in DOMAIN data.px :
                 /\ InZeroOne(normalized_array(data.px, RangeMin, RangeMax)[i])
                 /\ lut_index(normalized_array(data.px, RangeMin, RangeMax)[i])
                       \in 0..(Len(RdYlGn_lut) - 1)
                 /\ (~isnan(data.px[i]) /\ PixLeq(data.px[i], RangeMin))
                       => ret.px[i] = colormap_array(0)
                 /\ (~isnan(data.px[i]) /\ PixLeq(RangeMax, data.px[i]))
                       => ret.px[i] = colormap_array(Len(RdYlGn_lut) - 1)

\* C14: whatever the palette, every pixel of the image apply_colormap returns
\* has exactly three channels.
C14_ThreeChannels ==
    (Returned("apply_colormap") /\ ret # None)
        => \A i \in DOMAIN ret.px : Len(ret.px[i]) = 3

\* the positions of the non-NaN elements of an array
ValidAt(arr) == {i \in DOMAIN arr : arr[i].k # "nan"}

\* the statistics st are those of an array whose one valid element is v
OneValueStatistics(st, v) ==
    st.min = v /\ st.max = v /\ st.mean = v /\ st.median = v /\ st.std.k = "fin" /\ st.std.n = 0

\* C15: statistics over an array that is entirely NaN fail with the
\* empty-data error raised and no Statistics record returned; over an array
\* with exactly one non-NaN element v they are min = max = mean = median = v
\* and std = 0.  Stated of the statistics of analyze_vegetation_comprehensive
\* (of the index array) and of process_geotiff_histogram (of each band).
C15_StatisticsOfDegenerateArrays ==
    /\ (Returned("analyze_vegetation_comprehensive") /\ ret # None)
          => /\ ValidAt(IndexPixels) # {}
             /\ \A i \in ValidAt(IndexPixels) :
                   ValidAt(IndexPixels) = {i}
                      => OneValueStatistics(ret.statistics, IndexPixels[i])
    /\ (Returned("process_geotiff_histogram") /\ dataset.state = "raster")
          => /\ (\E k \in DOMAIN dataset.bands : ValidAt(dataset.bands[k].px) = {})
                   => ret = None /\ raised # None
             /\ ret # None
                   => \A k \in DOMAIN dataset.bands : \A i \in ValidAt(dataset.bands[k].px) :
                         ValidAt(dataset.bands[k].px) = {i}
                            => OneValueStatistics(ret.statistics[k], dataset.bands[k].px[i])

\* the bands of the array handed to calculate_histogram
HistBands == IF "bands" \in DOMAIN image_data THEN image_data.bands ELSE <<image_data>>

\* the non-NaN values of band k that the mask selects
Selected(k) == band_values(HistBands[k], mask)

RECURSIVE SumSeq(_)
SumSeq(q) == IF q = << >> THEN 0 ELSE Head(q) + SumSeq(Tail(q))

\* every band has a selected value that is not NaN, and all of them are finite
HistogramDefined ==
    \A k \in DOMAIN HistBands :
        Selected(k) # << >> /\ \A i \in DOMAIN Selected(k) : Selected(k)[i].k = "fin"

\* C16: calculate_histogram with bin count N returns, for each band, exactly
\* N non-negative counts and N+1 ascending bin edges.  With no range the first
\* and last edges are the band's non-NaN min and max and the counts sum to
\* the number of non-NaN mask-selected values of the band; with an explicit
\* range the edges span that range and the counts sum to the number of valid
\* values inside it.
C16_HistogramCountsAndEdges ==
    (Returned("calculate_histogram") /\ HistogramDefined)
        => /\ ret # None
           /\ Len(ret.histograms) = Len(HistBands)
           /\ \A k \in DOMAIN HistBands :
                 LET h == ret.histograms[k] IN
                 /\ Len(h.hist) = bins
                 /\ \A j \in DOMAIN h.hist : h.hist[j] >= 0
                 /\ Len(h.bin_edges) = bins + 1
                 /\ \A j \in 1..bins : RatLeq(h.bin_edges[j], h.bin_edges[j + 1])
                 /\ IF range_values = None
                    THEN /\ h.bin_edges[1] = np_min(Selected(k))
                         /\ h.bin_edges[bins + 1] = np_max(Selected(k))
                         /\ SumSeq(h.hist) = Len(Selected(k))
                    ELSE /\ h.bin_edges[1] = range_values.lo
                         /\ h.bin_edges[bins + 1] = range_values.hi
                         /\ SumSeq(h.hist) =
                               Cardinality({i \in DOMAIN Selected(k) :
                                               /\ RatLeq(range_values.lo, Selected(k)[i])
                                               /\ RatLeq(Selected(k)[i], range_values.hi)})

\* the histogram of band k handed to calculate_histogram alone
AloneHistogram(k) == calculate_histogram(HistBands[k], bins, None, mask).ret

\* C17: for a multi-band input with no range given, the bin edges of band k
\* are those of band k's own non-NaN min and max, the edges the band has
\* when it is handed in alone, whatever the other bands hold.
C17_RangePerBand ==
    (/\ Returned("calculate_histogram")
     /\ "bands" \in DOMAIN image_data
     /\ range_values = None
     /\ HistogramDefined)
        => /\ ret # None
           /\ \A k \in DOMAIN HistBands :
                 ret.histograms[k].bin_edges = AloneHistogram(k).histograms[1].bin_edges

\* a raster that read_geotiff reads: a file with bands that hold pixels
Readable(ds) ==
    ds.state = "raster" /\ Len(ds.bands) > 0 /\ Len(ds.bands[1].px) > 0

\* six fifths of the pixel g, as a float
SixFifths(g) == Float(6 * g.n, 5 * g.d)

\* C18: band extraction is positional.  Of a readable raster with 4 or more
\* bands, bands 1..4 are red, green, blue and nir unchanged; of a raster with
\* exactly 3 bands, bands 1..3 are red, green and blue and nir is 1.2 times
\* green at every pixel.
C18_PositionalBands ==
    (/\ Returned("analyze_vegetation_from_geotiff")
     /\ Readable(dataset)
     /\ Len(dataset.bands) >= 3)
        => /\ DOMAIN image_bands = {"red", "green", "blue", "nir"}
           /\ image_bands.red = dataset.bands[1]
           /\ image_bands.green = dataset.bands[2]
           /\ image_bands.blue = dataset.bands[3]
           /\ IF Len(dataset.bands) >= 4
              THEN image_bands.nir = dataset.bands[4]
              ELSE /\ DOMAIN Band("nir") = DOMAIN dataset.bands[2].px
                   /\ \A i \in DOMAIN Band("nir") :
                         Band("nir")[i] = SixFifths(dataset.bands[2].px[i])

\* C18's case: a raster of exactly three 8-bit bands with green = 100, of
\* which an index was returned; its nir band holds 120
C18_Witness ==
    /\ Returned("analyze_vegetation_from_geotiff")
    /\ Readable(dataset) /\ Len(dataset.bands) = 3
    /\ dataset.bands[2].px[1] = UInt("uint8", 100)
    /\ ret # None
    /\ Band("nir")[1] = Float(120, 1)

\* C19: an RGB-only algorithm requested on a raster with exactly one band is
\* computed on a BandSet whose red, green and blue are all that band, and
\* not rejected.
C19_OneBandBroadcast ==
    (/\ Returned("analyze_vegetation_from_geotiff")
     /\ Readable(dataset)
     /\ Len(dataset.bands) = 1
     /\ algorithm \in {"gli", "tgi"})
        => /\ ret # None
           /\ \A role \in {"red", "green", "blue"} :
                 role \in DOMAIN image_bands /\ image_bands[role] = dataset.bands[1]

\* C20: loading a raster whose file is missing, has zero bands or holds empty
\* or unreadable data fails with the raster read error raised to the caller,
\* who receives no data and no metadata.
C20_UnreadableRasterRaises ==
    (Returned("read_geotiff") /\ ~Readable(dataset))
        => /\ raised # None
           /\ ret.data = None /\ ret.metadata = None

Within4(v, p, q) ==
    /\ isfinite(v) /\ v.f = "q"
    /\ QCmp(v, 10000 * p - q, 10000 * q) >= 0
    /\ QCmp(v, 10000 * p + q, 10000 * q) <= 0

\* C22: for an image of one colour with r + g > 0, the NDVI by RGB proxy is
\* the same value at every pixel, within 1e-4 of (g - r) / (g + r), so that
\* its mean is that value and its standard deviation 0; for r = 100,
\* g = 150, b = 80 the value is 0.2.
C22_ConstantImageNdvi ==
    (/\ Returned("VegetationAnalyzer.analyze") /\ algorithm = "ndvi" /\ ret # None
     /\ \A i \in DOMAIN image.px : image.px[i] = image.px[1]
     /\ image.px[1].r.n + image.px[1].g.n > 0)
        => /\ DOMAIN IndexPixels = DOMAIN image.px
           /\ \A i \in DOMAIN IndexPixels :
                 /\ IndexPixels[i] = IndexPixels[1]
                 /\ Within4(IndexPixels[i], image.px[1].g.n - image.px[1].r.n,
                             image.px[1].g.n + image.px[1].r.n)
                 /\ (image.px[1].r.n = 100 /\ image.px[1].g.n = 150)
                       => Within4(IndexPixels[i], 1, 5)

\* C22's case: the NDVI returned for two pixels of red 100, green 150 and
\* blue 80
C22_Witness ==
    /\ Returned("VegetationAnalyzer.analyze") /\ algorithm = "ndvi" /\ ret # None
    /\ Len(image.px) = 2
    /\ image.px[1] = [b |-> UInt("uint8", 80), g |-> UInt("uint8", 150), r |-> UInt("uint8", 100)]
    /\ image.px[2] = image.px[1]
    /\ Within4(IndexPixels[2], 1, 5)

\* C23: ProcessTimer.check_timeout raises TimeoutError whenever the timer has
\* been started and the time elapsed since the start exceeds timeout_seconds;
\* in every other case (the elapsed time is within the ceiling, or the timer
\* was never started) it returns False and raises nothing
C23_CheckTimeout ==
    Returned("ProcessTimer") =>
        IF timer.start_time # None /\ now - timer.start_time.time > timer.timeout_seconds
        THEN raised = TimeoutError
        ELSE raised = None /\ ret = [value |-> FALSE]

\* a started timer is checked one second after its ceiling has passed
C23_Witness ==
    /\ Returned("ProcessTimer")
    /\ timer.start_time # None
    /\ now - timer.start_time.time = timer.timeout_seconds + 1
    /\ raised = TimeoutError

\* C24: a function wrapped by memory_monitor is called exactly once whatever
\* the memory readings are; the value it returns is returned unchanged and
\* the exception it raises is raised again; a reading beyond a threshold
\* adds a garbage-collection pass and nothing else
C24_MonitorRunsFuncOnce ==
    Returned("memory_monitor") =>
        /\ calls = 1
        /\ func.raised = None => (ret = func.value /\ raised = None)
        /\ func.raised # None => raised = func.raised

\* func returned while the available memory read was under 200 MB and the
\* resident memory had grown by more than 100 MB: both passes ran
C24_Witness ==
    /\ Returned("memory_monitor")
    /\ memory.max_memory_mb # 0
    /\ memory.available = MB(100)
    /\ memory.rss_init = MB(100) /\ memory.rss_after = MB(300)
    /\ gc_passes = 2
    /\ calls = 1
    /\ ret = [value |-> "result"]

\* the palette position written for pixel i of the image file returned
Position(i) == files[ret.path].pixels[i]

\* C25: in VegetationAnalyzer.apply_colormap_and_save an index value above
\* the display maximum gets palette position 255, like the maximum itself,
\* and a value below the display minimum gets position 0, like the minimum
\* itself; the conversion to 8 bits never wraps modulo 256
C25_OutOfRangeClipped ==
    (Returned("VegetationAnalyzer.analyze") /\ ret # None) =>
        \A i \in DOMAIN IndexPixels :
            /\ QCmp(IndexPixels[i], ranges[2], 1) > 0 => Position(i) = 255
            /\ QCmp(IndexPixels[i], ranges[1], 1) < 0 => Position(i) = 0

\* C26: BatchProcessingTimer.process_item processes each item with timeout
\* control: an item whose function runs longer than timeout_per_item seconds
\* ends in TimeoutError, is appended to failed_items and is not counted in
\* processed_items
C26_ItemTimeout ==
    (entry = "BatchProcessingTimer.process_item" /\ work # None
     /\ work.duration > batch.timeout_per_item)
        => /\ raised = TimeoutError
           /\ \E i \in DOMAIN batch.failed_items : batch.failed_items[i] = work.item_id
           /\ batch.processed_items = work.processed_before

\* C27: nesting of timeout_context preserves the outer deadline: while a
\* context is entered (also after a context nested in it was left) the alarm
\* is armed with timeout_handler, so work in a context never runs past the
\* context's ceiling
C27_NestedDeadlineKept ==
    (entry = "timeout_context" /\ pc = "ready") =>
        \A i \in DOMAIN contexts :
            /\ sigalrm.handler = "timeout_handler"
            /\ sigalrm.alarm # None
            /\ now < contexts[i].entered + contexts[i].seconds

\* C28: whenever the result of analyze_vegetation_from_geotiff carries a
\* geotiff_path and a colored_path, the files at these paths were written
\* during the call; a failed write_geotiff yields no result that advertises
\* the path
C28_AdvertisedPathsWritten ==
    (Returned("analyze_vegetation_from_geotiff") /\ ret # None /\ output_dir # None)
        => /\ ret.geotiff_path \in DOMAIN files
           /\ ret.colored_path \in DOMAIN files

\* C29: after any sequence of VegetationAnalyzer.analyze calls no two calls
\* returned the same result path: a later analysis with the same algorithm
\* and colormap never overwrites the image file of an earlier one
C29_ResultPathsDistinct ==
    \A i, j \in DOMAIN paths : i # j => paths[i] # paths[j]

\* the unsigned band values for which every step of the MSAVI formula stays
\* in the dtype of the bands: 2*nir + 1, its square, nir - red and
\* 8*(nir - red); float64 values of the sizes analysed never overflow
WithoutOverflow(red, nir) ==
    /\ nir.t \in UIntTypes =>
          (2 * nir.n + 1) * (2 * nir.n + 1) < Modulus(nir.t)
    /\ (nir.t \in UIntTypes /\ red.t \in UIntTypes) =>
          /\ red.t = nir.t
          /\ nir.n >= red.n
          /\ 8 * (nir.n - red.n) < Modulus(nir.t)

NonNegative(x) == x.k = "fin" /\ x.n >= 0

\* the result of calculate_msavi_advanced is in the state
MsaviReturned ==
    /\ pc = "done"
    /\ entry \in {"analyze_vegetation_comprehensive", "analyze_vegetation_from_geotiff"}
    /\ algorithm = "msavi"
    /\ ret # None

====
